---------------------------- MODULE Spec2Model ----------------------------
(***************************************************************************)
(* A state-machine model of the timesheet backend (src/backend/app).       *)
(*                                                                         *)
(* The state is the relational store: the users, timesheet_submissions,    *)
(* timesheet_entries, notifications and supervisor_direct_reports tables,  *)
(* plus the response of the last request.  Every action is one HTTP        *)
(* request handler, run to completion (one request = one step), with the   *)
(* CRUD calls it makes inlined.                                            *)
(*                                                                         *)
(* Conventions                                                             *)
(*  - A nullable column holds <<>> (NULL / None) or <<v>> (the value v).   *)
(*  - Hours are counted in units of 1/Scale hour, so that the Float column *)
(*    timesheet_entries.total_hours can hold fractional values; the        *)
(*    Integer column timesheet_submissions.total_hours holds whole hours.  *)
(*  - resp is the last request and its HTTP status code.                   *)
(*  - The handlers of timesheets.py and timesheet_entries.py call          *)
(*    CRUDTimesheetSubmission.get/create without the site_id argument that *)
(*    crud/user.py requires, and import get_site_from_user,                *)
(*    get_current_admin and get_current_supervisor_or_admin, which         *)
(*    api/deps.py does not define.  The model supplies the caller's site   *)
(*    (get_site_from_user(current_user)) for the omitted argument, as the  *)
(*    handlers of projects.py and notifications.py do, and models the      *)
(*    three missing dependencies from their names and their uses.          *)
(*  - What pydantic and SQLAlchemy do with a value (validation, coercion,  *)
(*    NOT NULL and foreign-key enforcement) is not modelled: a handler     *)
(*    that reaches its commit succeeds.  The handlers' own expressions     *)
(*    are modelled with Python's semantics.  Two constraints are          *)
(*    modelled, because a handler's own logic can run into them: the      *)
(*    UniqueConstraint (site_id, name) of projects, which projects.py     *)
(*    guards with get_by_name, and nullable=False of feedback.title,      *)
(*    which update_feedback can set to None.  A commit that would break   *)
(*    one raises IntegrityError (status 500, nothing stored).             *)
(***************************************************************************)
EXTENDS Integers, Sequences, FiniteSets, TLC

VARIABLES
    users,          \* users table: id -> row
    timesheets,     \* timesheet_submissions table: sequence of rows, id = index
    entries,        \* timesheet_entries table: set of rows
    notifications,  \* notifications table: set of rows
    mappings,       \* supervisor_direct_reports table: set of rows
    nextId,         \* next primary key of the tables rows are deleted from
    now,            \* the wall clock (datetime.utcnow / func.now)
    feedback,       \* feedback table: set of rows
    feedback_responses, \* feedback_responses table: set of rows
    projects,       \* projects table: set of rows
    project_members,    \* project_members table: set of rows
    resp,           \* the last request and its response code
    inflight        \* the requests that passed their checks and have not written yet

\* the tables of feedback.py and projects.py
more == <<feedback, feedback_responses, projects, project_members>>

db   == <<users, timesheets, entries, notifications, mappings, nextId, now, more>>
vars == <<db, resp, inflight>>

-----------------------------------------------------------------------------
(* Bounds of the model *)

MaxTimesheets == 2      \* rows of timesheet_submissions
MaxEntries    == 2      \* primary keys handed out by timesheet_entries
MaxEntrySheets == 1     \* rows of timesheet_submissions where entries are edited
MaxFeedback == 1        \* primary keys handed out by feedback
MaxResponses == 2       \* primary keys handed out by feedback_responses
MaxProjects == 2        \* primary keys handed out by projects
MaxMembers == 2         \* primary keys handed out by project_members
MaxMemberProjects == 1  \* projects where memberships vary
MaxBulkRows == 2        \* rows of one bulk request or CSV file
MaxBulkEntries == 2     \* primary keys handed out by the bulk handlers
MaxRequests == 2        \* requests in flight together
MaxReadDay == 2         \* the last day of the clock where notifications are read
MaxNow == 10            \* the last day of the clock
MaxUserSheets == 1      \* rows of timesheet_submissions where users change or side effects fail

-----------------------------------------------------------------------------
(* Nullable values *)

None      == <<>>
Some(v)   == <<v>>
IsSet(o)  == o # <<>>
Val(o)    == o[1]

(* resolution of the Float column total_hours: 1 unit = 1/Scale hour *)
Scale == 2

\* entry.total_hours values a request may carry: 0.5 h, 1.5 h
HourInputs == {1, 3}

\* the name claim of a Google token: absent, or a name
GoogleNames == {"", "D. Supervisor"}

\* review_notes values: approve's defaults to None, reject's is a required str
ApproveNotes == {None, Some("ok")}
RejectNotes  == {Some("redo")}

Statuses == {"draft", "pending", "approved", "rejected"}

Periods == {1}

-----------------------------------------------------------------------------
(* The users table as the seed script leaves it: an admin (is_supervisor   *)
(* defaulting to False), a supervisor, and staff whose supervisor_id is    *)
(* the supervisor.                                                         *)

UserRow(site, name, role, sup, boss) ==
    [site_id |-> site, full_name |-> name, role |-> role, is_supervisor |-> sup,
     is_active |-> TRUE, supervisor_id |-> boss, google_id |-> None]

SeedUsers ==
    (1 :> UserRow(1, "Alice Smith", "staff", FALSE, Some(2))) @@
    (2 :> UserRow(1, "Demo Supervisor", "supervisor", TRUE, None)) @@
    (3 :> UserRow(1, "Demo Admin", "admin", FALSE, None))

NoRequest == [op |-> "none", caller |-> 0, id |-> 0, code |-> 0]

\* the store before the first request, with the given users table
InitWith(seed) ==
    /\ users = seed
    /\ timesheets = <<>>
    /\ entries = {}
    /\ notifications = {}
    /\ mappings = {}
    /\ nextId = [entry |-> 1, notification |-> 1, mapping |-> 1,
                 feedback |-> 1, response |-> 1, project |-> 1, member |-> 1]
    /\ feedback = {}
    /\ feedback_responses = {}
    /\ projects = {}
    /\ project_members = {}
    /\ now = 1
    /\ resp = NoRequest
    /\ inflight = {}

Init == InitWith([u \in {1, 2} |-> SeedUsers[u]])

-----------------------------------------------------------------------------
(* api/deps.py *)

\* CRUDUser.get: the row with this id, or nothing
CRUDUser_get(id) == IF id \in DOMAIN users THEN Some(id) ELSE None

get_current_user_mutNoActive(c) ==
    IF CRUDUser_get(c) = None THEN 404
    ELSE 200

\* get_current_user: 200 when the token's user exists and is active
get_current_user(c) ==
    IF CRUDUser_get(c) = None THEN 404
    ELSE IF ~users[c].is_active THEN 400
    ELSE 200

\* get_current_supervisor: the is_supervisor flag decides
get_current_supervisor(c) ==
    IF get_current_user(c) # 200 THEN get_current_user(c)
    ELSE IF ~users[c].is_supervisor THEN 403
    ELSE 200

\* the tenant of the caller
get_site_from_user(c) == users[c].site_id

\* get_current_admin: the caller's role is admin
get_current_admin(c) ==
    IF get_current_user(c) # 200 THEN get_current_user(c)
    ELSE IF users[c].role # "admin" THEN 403
    ELSE 200

\* get_current_supervisor_or_admin: the caller's role is supervisor or admin
get_current_supervisor_or_admin(c) ==
    IF get_current_user(c) # 200 THEN get_current_user(c)
    ELSE IF users[c].role \notin {"supervisor", "admin"} THEN 403
    ELSE 200

\* a request that ends in an HTTP error leaves the store as it was
\* the answer of a request that is handled in one step
Respond(r) == resp' = r /\ UNCHANGED inflight

Reject(op, c, id, code) ==
    /\ Respond([op |-> op, caller |-> c, id |-> id, code |-> code])
    /\ UNCHANGED db

Ok(op, c, id) == Respond([op |-> op, caller |-> c, id |-> id, code |-> 200])

-----------------------------------------------------------------------------
(* crud/user.py: CRUDTimesheetSubmission *)

CRUDTimesheetSubmission_get_mutAnySite(id, site_id) ==
    IF id \in DOMAIN timesheets THEN Some(id) ELSE None

\* get: the row with this id in this site
CRUDTimesheetSubmission_get(id, site_id) ==
    IF id \in DOMAIN timesheets /\ timesheets[id].site_id = site_id
    THEN Some(id) ELSE None

\* create: a new row, status "draft"; submitted_at takes the insert time
CRUDTimesheetSubmission_create(period, user_id, site_id) ==
    [site_id |-> site_id, user_id |-> user_id, period |-> period,
     status |-> "draft", total_hours |-> None, submitted_at |-> Some(now),
     reviewed_at |-> None, reviewed_by |-> None, reviewed_by_name |-> None,
     review_notes |-> None]

\* the fields of TimesheetSubmissionUpdate a handler sets (exclude_unset)
ApplyPatch(row, patch) ==
    [f \in DOMAIN row |-> IF f \in DOMAIN patch THEN patch[f] ELSE row[f]]

\* who reviewed: reviewed_by when reviewer_id is truthy, reviewed_by_name
\* and reviewed_at when reviewer_name is truthy
StampReviewer(row, status, reviewer_id, reviewer_name) ==
    LET r1 == IF IsSet(reviewer_id) /\ Val(reviewer_id) # 0
              THEN [row EXCEPT !.reviewed_by = reviewer_id] ELSE row
    IN IF IsSet(reviewer_name) /\ Val(reviewer_name) # ""
       THEN LET r2 == [r1 EXCEPT !.reviewed_by_name = reviewer_name]
            IN IF status \in {"approved", "rejected"}
               THEN [r2 EXCEPT !.reviewed_at = Some(now)] ELSE r2
       ELSE r1

\* update: patch the row, then stamp the reviewer
CRUDTimesheetSubmission_update(row, patch, reviewer_id, reviewer_name) ==
    StampReviewer(ApplyPatch(row, patch), patch.status, reviewer_id, reviewer_name)

-----------------------------------------------------------------------------
(* crud/notification.py *)

NotificationRow(site_id, user_id, type, etype, eid) ==
    [id |-> nextId.notification, site_id |-> site_id, user_id |-> user_id,
     notification_type |-> type, related_entity_type |-> etype,
     related_entity_id |-> eid, is_read |-> FALSE, read_at |-> None]

create_pending_approval_notification_mutEntity(supervisor_id, site_id, timesheet_id) ==
    NotificationRow(site_id, supervisor_id, "approval",
                    Some("timesheet_submission"), Some(supervisor_id))

\* create_pending_approval_notification: one row for the supervisor
create_pending_approval_notification(supervisor_id, site_id, timesheet_id) ==
    NotificationRow(site_id, supervisor_id, "approval",
                    Some("timesheet_submission"), Some(timesheet_id))

\* create_timesheet_approval_notification: one row for the owner
create_timesheet_approval_notification(user_id, site_id, timesheet_id) ==
    NotificationRow(site_id, user_id, "approval",
                    Some("timesheet_submission"), Some(timesheet_id))

\* CRUDNotification.create: insert the row
CRUDNotification_create(row) ==
    /\ notifications' = notifications \cup {row}
    /\ nextId' = [nextId EXCEPT !.notification = @ + 1]

\* what happens inside the try block that follows the committed update:
\* the notification row and the email go out, or the insert raises (no row,
\* no email), or the row is written and the email is not sent
NotifyOutcomes == {"sent", "notification_fails", "email_fails"}

\* the try block: the row is inserted unless the insert raises
TryNotify(outcome, row) ==
    IF outcome = "notification_fails"
    THEN UNCHANGED <<notifications, nextId>>
    ELSE CRUDNotification_create(row)

except_Exception_mutRaise(outcome) == IF outcome = "sent" THEN 200 ELSE 500

\* except Exception: print(...) -- the handler goes on to its return
except_Exception(outcome) == 200

-----------------------------------------------------------------------------
(* api/api_v1/endpoints/timesheets.py *)

\* POST /create
create_timesheet(c, period) ==
    IF get_current_user(c) # 200
    THEN Reject("create_timesheet", c, 0, get_current_user(c))
    ELSE /\ timesheets' = Append(timesheets,
               CRUDTimesheetSubmission_create(period, c, get_site_from_user(c)))
         /\ Ok("create_timesheet", c, Len(timesheets) + 1)
         /\ UNCHANGED <<users, entries, notifications, mappings, nextId, now, more>>

\* GET /{timesheet_id}: the response carries the row
get_timesheet(c, tid) ==
    LET op == "get_timesheet" IN
    IF get_current_user(c) # 200 THEN Reject(op, c, tid, get_current_user(c))
    ELSE IF CRUDTimesheetSubmission_get(tid, get_site_from_user(c)) = None
    THEN Reject(op, c, tid, 404)
    ELSE IF timesheets[tid].user_id # c /\ ~users[c].is_supervisor
    THEN Reject(op, c, tid, 403)
    ELSE /\ Respond([op |-> op, caller |-> c, id |-> tid, code |-> 200,
                     body |-> timesheets[tid]])
         /\ UNCHANGED db

\* sum(entry.total_hours or 0 for entry in entries), in units of 1/Scale hour
RECURSIVE SumHours(_)
SumHours(S) ==
    IF S = {} THEN 0
    ELSE LET e == CHOOSE x \in S : TRUE
         IN (IF IsSet(e.total_hours) THEN Val(e.total_hours) ELSE 0)
            + SumHours(S \ {e})

EntriesOf(tid) == {e \in entries : e.submission_id = tid}

\* int(total_hours): the whole hours of a non-negative float
IntHours(units) == units \div Scale

\* the checks of submit_timesheet, in the handler's order: the timesheet
\* exists (404), the caller owns it (403), it is a draft (400)
submit_timesheet_mutNoOwner(c, tid) ==
    IF get_current_user(c) # 200 THEN get_current_user(c)
    ELSE IF CRUDTimesheetSubmission_get(tid, get_site_from_user(c)) = None THEN 404
    ELSE IF timesheets[tid].status # "draft" THEN 400
    ELSE 200

submit_timesheet_mutNoDraft(c, tid) ==
    IF get_current_user(c) # 200 THEN get_current_user(c)
    ELSE IF CRUDTimesheetSubmission_get(tid, get_site_from_user(c)) = None THEN 404
    ELSE IF timesheets[tid].user_id # c THEN 403
    ELSE 200

submit_timesheet_check(c, tid) ==
    IF get_current_user(c) # 200 THEN get_current_user(c)
    ELSE IF CRUDTimesheetSubmission_get(tid, get_site_from_user(c)) = None THEN 404
    ELSE IF timesheets[tid].user_id # c THEN 403
    ELSE IF timesheets[tid].status # "draft" THEN 400
    ELSE 200

\* POST /{timesheet_id}/submit, with the outcome of its side effects
submit_timesheet_outcome(c, tid, outcome) ==
    LET op == "submit_timesheet" IN
    IF submit_timesheet_check(c, tid) # 200
    THEN Reject(op, c, tid, submit_timesheet_check(c, tid))
    ELSE
      LET total_hours == SumHours(EntriesOf(tid))
          patch == [status |-> "pending",
                    total_hours |-> Some(IntHours(total_hours))]
          supervisor == IF IsSet(users[c].supervisor_id)
                        THEN CRUDUser_get(Val(users[c].supervisor_id))
                        ELSE None
      IN /\ timesheets' = [timesheets EXCEPT ![tid] =
                CRUDTimesheetSubmission_update(@, patch, None, None)]
         /\ IF IsSet(supervisor)
            THEN TryNotify(outcome,
                   create_pending_approval_notification(
                     Val(supervisor), get_site_from_user(c), tid))
            ELSE UNCHANGED <<notifications, nextId>>
         /\ Respond([op |-> op, caller |-> c, id |-> tid,
                     code |-> except_Exception(outcome)])
         /\ UNCHANGED <<users, entries, mappings, now, more>>

\* POST /{timesheet_id}/submit when nothing fails
submit_timesheet(c, tid) == submit_timesheet_outcome(c, tid, "sent")

\* the checks of approve_timesheet and reject_timesheet: the caller passes
\* get_current_supervisor, the timesheet exists (404), it is pending (400)
review_check_mutNoPending(c, tid) ==
    IF get_current_supervisor(c) # 200 THEN get_current_supervisor(c)
    ELSE IF CRUDTimesheetSubmission_get(tid, get_site_from_user(c)) = None THEN 404
    ELSE 200

review_check_mutDraftOnly(c, tid) ==
    IF get_current_supervisor(c) # 200 THEN get_current_supervisor(c)
    ELSE IF CRUDTimesheetSubmission_get(tid, get_site_from_user(c)) = None THEN 404
    ELSE IF timesheets[tid].status = "draft" THEN 400
    ELSE 200

review_check(c, tid) ==
    IF get_current_supervisor(c) # 200 THEN get_current_supervisor(c)
    ELSE IF CRUDTimesheetSubmission_get(tid, get_site_from_user(c)) = None THEN 404
    ELSE IF timesheets[tid].status # "pending" THEN 400
    ELSE 200

\* the part of approve_timesheet and reject_timesheet that follows the
\* checks: the update and, with the outcome of its side effects, the
\* notification
ReviewWrite(status, c, tid, review_notes, outcome) ==
    LET patch == [status |-> status, review_notes |-> review_notes]
        staff_member == CRUDUser_get(timesheets[tid].user_id)
    IN /\ timesheets' = [timesheets EXCEPT ![tid] =
              CRUDTimesheetSubmission_update(@, patch, Some(c),
                                             Some(users[c].full_name))]
       /\ IF IsSet(staff_member)
          THEN TryNotify(outcome,
                 create_timesheet_approval_notification(
                   Val(staff_member), get_site_from_user(c), tid))
          ELSE UNCHANGED <<notifications, nextId>>
       /\ UNCHANGED <<users, entries, mappings, now, more>>

\* the body shared by approve_timesheet and reject_timesheet, with the
\* outcome of its side effects
ReviewOutcome(op, status, c, tid, review_notes, outcome) ==
    IF review_check(c, tid) # 200 THEN Reject(op, c, tid, review_check(c, tid))
    ELSE /\ ReviewWrite(status, c, tid, review_notes, outcome)
         /\ Respond([op |-> op, caller |-> c, id |-> tid,
                     code |-> except_Exception(outcome)])

\* the body shared by approve_timesheet and reject_timesheet when nothing fails
Review(op, status, c, tid, review_notes) ==
    ReviewOutcome(op, status, c, tid, review_notes, "sent")

\* POST /{timesheet_id}/approve
approve_timesheet(c, tid, review_notes) ==
    Review("approve_timesheet", "approved", c, tid, review_notes)

\* POST /{timesheet_id}/reject
reject_timesheet(c, tid, review_notes) ==
    Review("reject_timesheet", "rejected", c, tid, review_notes)

\* A review request served concurrently with others.  Its first step runs
\* the guard, the lookup and the status check and keeps the request in
\* flight; nothing is locked.
review_begin(req, op, status, c, tid, review_notes) ==
    /\ \A r \in inflight : r.req # req
    /\ IF review_check(c, tid) # 200 THEN Reject(op, c, tid, review_check(c, tid))
       ELSE /\ inflight' = inflight \cup
                    {[req |-> req, op |-> op, status |-> status, caller |-> c,
                      id |-> tid, review_notes |-> review_notes]}
            /\ UNCHANGED <<db, resp>>

\* Its second step: the update, the notification and the answer
review_finish(r) ==
    /\ r \in inflight /\ r.op \in {"approve_timesheet", "reject_timesheet"}
    /\ inflight' = inflight \ {r}
    /\ ReviewWrite(r.status, r.caller, r.id, r.review_notes, "sent")
    /\ resp' = [op |-> r.op, caller |-> r.caller, id |-> r.id, code |-> 200]

-----------------------------------------------------------------------------
(* api/api_v1/endpoints/timesheet_entries.py *)

\* TimesheetEntry(submission_id=..., total_hours=...): the inserted row
EntryRow(submission_id, total_hours) ==
    [id |-> nextId.entry, submission_id |-> submission_id,
     total_hours |-> total_hours]

\* db.query(TimesheetEntry).filter(id == entry_id).first()
EntryById(eid) == {e \in entries : e.id = eid}

\* the checks every single-entry handler makes on the timesheet:
\* it exists (404) and the caller owns it (403)
EntryAccess(c, tid) ==
    IF CRUDTimesheetSubmission_get(tid, get_site_from_user(c)) = None THEN 404
    ELSE IF timesheets[tid].user_id # c THEN 403
    ELSE 200

InsertEntry(op, c, tid, total_hours) ==
    /\ entries' = entries \cup {EntryRow(tid, total_hours)}
    /\ nextId' = [nextId EXCEPT !.entry = @ + 1]
    /\ Ok(op, c, nextId.entry)
    /\ UNCHANGED <<users, timesheets, notifications, mappings, now, more>>

\* for field, value in entry_update.dict(exclude_unset=True): setattr(...)
PatchEntry(op, c, e, total_hours) ==
    /\ entries' = (entries \ {e}) \cup {[e EXCEPT !.total_hours = total_hours]}
    /\ Ok(op, c, e.id)
    /\ UNCHANGED <<users, timesheets, notifications, mappings, nextId, now, more>>

RemoveEntry(op, c, e) ==
    /\ entries' = entries \ {e}
    /\ Ok(op, c, e.id)
    /\ UNCHANGED <<users, timesheets, notifications, mappings, nextId, now, more>>

\* POST /{timesheet_id}/entries
create_timesheet_entry(c, tid, total_hours) ==
    LET op == "create_timesheet_entry" IN
    IF get_current_user(c) # 200 THEN Reject(op, c, tid, get_current_user(c))
    ELSE IF EntryAccess(c, tid) # 200 THEN Reject(op, c, tid, EntryAccess(c, tid))
    ELSE InsertEntry(op, c, tid, total_hours)

\* PUT /{timesheet_id}/entries/{entry_id}
update_timesheet_entry(c, tid, eid, total_hours) ==
    LET op == "update_timesheet_entry"
        found == {e \in EntryById(eid) : e.submission_id = tid}
    IN
    IF get_current_user(c) # 200 THEN Reject(op, c, eid, get_current_user(c))
    ELSE IF EntryAccess(c, tid) # 200 THEN Reject(op, c, eid, EntryAccess(c, tid))
    ELSE IF found = {} THEN Reject(op, c, eid, 404)
    ELSE PatchEntry(op, c, CHOOSE e \in found : TRUE, total_hours)

\* DELETE /{timesheet_id}/entries/{entry_id}
delete_timesheet_entry(c, tid, eid) ==
    LET op == "delete_timesheet_entry"
        found == {e \in EntryById(eid) : e.submission_id = tid}
    IN
    IF get_current_user(c) # 200 THEN Reject(op, c, eid, get_current_user(c))
    ELSE IF EntryAccess(c, tid) # 200 THEN Reject(op, c, eid, EntryAccess(c, tid))
    ELSE IF found = {} THEN Reject(op, c, eid, 404)
    ELSE RemoveEntry(op, c, CHOOSE e \in found : TRUE)

\* POST /  (the timesheet is named by entry.submission_id)
create_entry(c, submission_id, total_hours) ==
    LET op == "create_entry" IN
    IF get_current_user(c) # 200
    THEN Reject(op, c, submission_id, get_current_user(c))
    ELSE IF EntryAccess(c, submission_id) # 200
    THEN Reject(op, c, submission_id, EntryAccess(c, submission_id))
    ELSE InsertEntry(op, c, submission_id, total_hours)

\* PUT /{entry_id}  (the timesheet is the entry's submission)
update_entry(c, eid, total_hours) ==
    LET op == "update_entry"
        found == EntryById(eid)
        e == CHOOSE x \in found : TRUE
    IN
    IF get_current_user(c) # 200 THEN Reject(op, c, eid, get_current_user(c))
    ELSE IF found = {} THEN Reject(op, c, eid, 404)
    ELSE IF EntryAccess(c, e.submission_id) # 200
    THEN Reject(op, c, eid, EntryAccess(c, e.submission_id))
    ELSE PatchEntry(op, c, e, total_hours)

\* DELETE /{entry_id}
delete_entry(c, eid) ==
    LET op == "delete_entry"
        found == EntryById(eid)
        e == CHOOSE x \in found : TRUE
    IN
    IF get_current_user(c) # 200 THEN Reject(op, c, eid, get_current_user(c))
    ELSE IF found = {} THEN Reject(op, c, eid, 404)
    ELSE IF EntryAccess(c, e.submission_id) # 200
    THEN Reject(op, c, eid, EntryAccess(c, e.submission_id))
    ELSE RemoveEntry(op, c, e)

-----------------------------------------------------------------------------
(* api/api_v1/endpoints/auth.py *)

\* POST /auth/google with a verified token of the Google account of user u
\* (sub = u, email = u's email) whose name claim is name, '' when the token
\* carries none.  A row found by google_id takes the token's name; a row
\* found by email only is linked to the account.
authenticate_with_google(u, name) ==
    /\ users' = IF users[u].google_id = Some(u)
                THEN [users EXCEPT ![u].full_name = name]
                ELSE [users EXCEPT ![u].google_id = Some(u)]
    /\ Ok("authenticate_with_google", u, u)
    /\ UNCHANGED <<timesheets, entries, notifications, mappings, nextId, now, more>>

-----------------------------------------------------------------------------
(* api/api_v1/endpoints/users.py and CRUDUser.update *)

\* CRUDUser.update: setattr for every field the UserUpdate carries
CRUDUser_update(u, patch) ==
    /\ users' = [users EXCEPT ![u] = ApplyPatch(@, patch)]
    /\ UNCHANGED <<timesheets, entries, notifications, mappings, nextId, now, more>>

\* PUT /users/me: any field of UserUpdate, for the caller's own row
update_current_user(c, patch) ==
    LET op == "update_current_user" IN
    IF get_current_user(c) # 200 THEN Reject(op, c, c, get_current_user(c))
    ELSE CRUDUser_update(c, patch) /\ Ok(op, c, c)

\* PUT /users/{user_id}: a role change needs an admin caller
update_user(c, u, patch) ==
    LET op == "update_user" IN
    IF get_current_supervisor_or_admin(c) # 200
    THEN Reject(op, c, u, get_current_supervisor_or_admin(c))
    ELSE IF CRUDUser_get(u) = None THEN Reject(op, c, u, 404)
    ELSE IF "role" \in DOMAIN patch /\ users[c].role # "admin"
    THEN Reject(op, c, u, 403)
    ELSE CRUDUser_update(u, patch) /\ Ok(op, c, u)

\* the body shared by promote_user, demote_user and change_user_role
SetRole(op, c, u, patch) ==
    IF get_current_admin(c) # 200 THEN Reject(op, c, u, get_current_admin(c))
    ELSE IF CRUDUser_get(u) = None THEN Reject(op, c, u, 404)
    ELSE CRUDUser_update(u, patch) /\ Ok(op, c, u)

\* POST /users/{user_id}/promote
promote_user(c, u) ==
    SetRole("promote_user", c, u, [role |-> "supervisor", is_supervisor |-> TRUE])

\* POST /users/{user_id}/demote
demote_user(c, u) ==
    SetRole("demote_user", c, u, [role |-> "staff", is_supervisor |-> FALSE])

\* PUT /users/{user_id}/role
change_user_role(c, u, role) ==
    SetRole("change_user_role", c, u,
            [role |-> role, is_supervisor |-> role \in {"supervisor", "admin"}])

-----------------------------------------------------------------------------
(* api/api_v1/endpoints/supervisor_mapping.py *)

\* supervisor.role not in ["SUPERVISOR", "ADMIN"]: role is a member of the
\* Enum UserRole (models/user.py), which is not a str subclass, and a member
\* of such an Enum equals no str; the membership test is false for every role
RoleInNames(role, names) == \E n \in names : FALSE /\ role = n

MappingRow(supervisor_id, direct_report_id) ==
    [id |-> nextId.mapping, supervisor_id |-> supervisor_id,
     direct_report_id |-> direct_report_id]

MappingById(mid) == {m \in mappings : m.id = mid}

\* POST /supervisor-mappings/
create_supervisor_mapping(c, supervisor_id, direct_report_id) ==
    LET op == "create_supervisor_mapping" IN
    IF get_current_admin(c) # 200
    THEN Reject(op, c, direct_report_id, get_current_admin(c))
    ELSE IF CRUDUser_get(supervisor_id) = None
    THEN Reject(op, c, direct_report_id, 404)
    ELSE IF ~RoleInNames(users[supervisor_id].role, {"SUPERVISOR", "ADMIN"})
    THEN Reject(op, c, direct_report_id, 400)
    ELSE IF CRUDUser_get(direct_report_id) = None
    THEN Reject(op, c, direct_report_id, 404)
    ELSE IF \E m \in mappings : /\ m.supervisor_id = supervisor_id
                                /\ m.direct_report_id = direct_report_id
    THEN Reject(op, c, direct_report_id, 400)
    ELSE /\ mappings' = mappings \cup {MappingRow(supervisor_id, direct_report_id)}
         /\ nextId' = [nextId EXCEPT !.mapping = @ + 1]
         /\ users' = [users EXCEPT ![direct_report_id].supervisor_id =
                                      Some(supervisor_id)]
         /\ Ok(op, c, nextId.mapping)
         /\ UNCHANGED <<timesheets, entries, notifications, now, more>>

\* PUT /supervisor-mappings/{mapping_id}: both fields are optional
update_supervisor_mapping(c, mid, supervisor_id, direct_report_id) ==
    LET op == "update_supervisor_mapping"
        m == CHOOSE x \in MappingById(mid) : TRUE
        m2 == [m EXCEPT
                 !.supervisor_id = IF IsSet(supervisor_id)
                                   THEN Val(supervisor_id) ELSE @,
                 !.direct_report_id = IF IsSet(direct_report_id)
                                      THEN Val(direct_report_id) ELSE @]
    IN
    IF get_current_admin(c) # 200 THEN Reject(op, c, mid, get_current_admin(c))
    ELSE IF MappingById(mid) = {} THEN Reject(op, c, mid, 404)
    ELSE IF IsSet(supervisor_id) /\ CRUDUser_get(Val(supervisor_id)) = None
    THEN Reject(op, c, mid, 404)
    ELSE IF IsSet(direct_report_id) /\ CRUDUser_get(Val(direct_report_id)) = None
    THEN Reject(op, c, mid, 404)
    ELSE /\ mappings' = (mappings \ {m}) \cup {m2}
         /\ users' = IF CRUDUser_get(m2.direct_report_id) # None
                     THEN [users EXCEPT ![m2.direct_report_id].supervisor_id =
                                          Some(m2.supervisor_id)]
                     ELSE users
         /\ Ok(op, c, mid)
         /\ UNCHANGED <<timesheets, entries, notifications, nextId, now, more>>

\* DELETE /supervisor-mappings/{mapping_id}
delete_supervisor_mapping(c, mid) ==
    LET op == "delete_supervisor_mapping"
        m == CHOOSE x \in MappingById(mid) : TRUE
    IN
    IF get_current_admin(c) # 200 THEN Reject(op, c, mid, get_current_admin(c))
    ELSE IF MappingById(mid) = {} THEN Reject(op, c, mid, 404)
    ELSE /\ users' = IF CRUDUser_get(m.direct_report_id) # None
                     THEN [users EXCEPT ![m.direct_report_id].supervisor_id = None]
                     ELSE users
         /\ mappings' = mappings \ {m}
         /\ Ok(op, c, mid)
         /\ UNCHANGED <<timesheets, entries, notifications, nextId, now, more>>

-----------------------------------------------------------------------------
(* api/api_v1/endpoints/feedback.py and crud/feedback.py *)

\* Feedback(...): status and priority take the column defaults.  Nullable
\* values, and title (which an update may try to set to None), are options.
FeedbackRow(user_id, title, description, rating) ==
    [id |-> nextId.feedback, user_id |-> user_id, title |-> title,
     description |-> description, rating |-> rating, status |-> "open",
     priority |-> "medium", assigned_to |-> None, resolution_notes |-> None,
     resolved_at |-> None]

\* CRUDFeedback.get
FeedbackById(fid) == {f \in feedback : f.id = fid}

\* CRUDFeedback.get_feedback_with_user_info: the inner join drops a row
\* whose user does not exist
FeedbackWithUser(fid) == {f \in FeedbackById(fid) : CRUDUser_get(f.user_id) # None}

\* FeedbackResponse(...): the message text is left out
ResponseRow(feedback_id, user_id, is_internal) ==
    [id |-> nextId.response, feedback_id |-> feedback_id, user_id |-> user_id,
     is_internal |-> is_internal]

\* CRUDFeedbackResponse.get_responses_with_user_info
get_responses_with_user_info(fid) ==
    {r \in feedback_responses :
        r.feedback_id = fid /\ CRUDUser_get(r.user_id) # None}

\* the permission check of the handlers that name a feedback item
FeedbackAccess(c, f) ==
    IF ~users[c].is_supervisor /\ f.user_id # c THEN 403 ELSE 200

visible_responses_mutNoFilter(c, responses) == responses

\* responses = [r for r in responses if not r.is_internal] for non-supervisors
visible_responses(c, responses) ==
    IF ~users[c].is_supervisor
    THEN {r \in responses : ~r.is_internal}
    ELSE responses

\* a request that only reads: the response carries a body
Return(op, c, id, body) ==
    /\ Respond([op |-> op, caller |-> c, id |-> id, code |-> 200, body |-> body])
    /\ UNCHANGED db

\* POST /feedback/
create_feedback(c, title, description, rating) ==
    LET op == "create_feedback" IN
    IF get_current_user(c) # 200 THEN Reject(op, c, 0, get_current_user(c))
    ELSE /\ feedback' = feedback \cup {FeedbackRow(c, title, description, rating)}
         /\ nextId' = [nextId EXCEPT !.feedback = @ + 1]
         /\ Ok(op, c, nextId.feedback)
         /\ UNCHANGED <<users, timesheets, entries, notifications, mappings, now,
                        feedback_responses, projects, project_members>>

\* GET /feedback/{feedback_id}
get_feedback(c, fid) ==
    LET op == "get_feedback"
        f == CHOOSE x \in FeedbackWithUser(fid) : TRUE
    IN
    IF get_current_user(c) # 200 THEN Reject(op, c, fid, get_current_user(c))
    ELSE IF FeedbackWithUser(fid) = {} THEN Reject(op, c, fid, 404)
    ELSE IF FeedbackAccess(c, f) # 200 THEN Reject(op, c, fid, 403)
    ELSE Return(op, c, fid,
                [feedback |-> f,
                 responses |-> visible_responses(c, get_responses_with_user_info(fid))])

add_feedback_response_mutNoInternalCheck(c, fid, is_internal) ==
    LET op == "add_feedback_response"
        f == CHOOSE x \in FeedbackById(fid) : TRUE
    IN
    IF get_current_user(c) # 200 THEN Reject(op, c, fid, get_current_user(c))
    ELSE IF FeedbackById(fid) = {} THEN Reject(op, c, fid, 404)
    ELSE IF FeedbackAccess(c, f) # 200 THEN Reject(op, c, fid, 403)
    ELSE /\ feedback_responses' =
               feedback_responses \cup {ResponseRow(fid, c, is_internal)}
         /\ nextId' = [nextId EXCEPT !.response = @ + 1]
         /\ Ok(op, c, fid)
         /\ UNCHANGED <<users, timesheets, entries, notifications, mappings, now,
                        feedback, projects, project_members>>

\* POST /feedback/{feedback_id}/responses
add_feedback_response(c, fid, is_internal) ==
    LET op == "add_feedback_response"
        f == CHOOSE x \in FeedbackById(fid) : TRUE
    IN
    IF get_current_user(c) # 200 THEN Reject(op, c, fid, get_current_user(c))
    ELSE IF FeedbackById(fid) = {} THEN Reject(op, c, fid, 404)
    ELSE IF FeedbackAccess(c, f) # 200 THEN Reject(op, c, fid, 403)
    ELSE IF is_internal /\ ~users[c].is_supervisor THEN Reject(op, c, fid, 403)
    ELSE /\ feedback_responses' =
               feedback_responses \cup {ResponseRow(fid, c, is_internal)}
         /\ nextId' = [nextId EXCEPT !.response = @ + 1]
         /\ Ok(op, c, fid)
         /\ UNCHANGED <<users, timesheets, entries, notifications, mappings, now,
                        feedback, projects, project_members>>

\* GET /feedback/{feedback_id}/responses
get_feedback_responses(c, fid) ==
    LET op == "get_feedback_responses"
        f == CHOOSE x \in FeedbackById(fid) : TRUE
    IN
    IF get_current_user(c) # 200 THEN Reject(op, c, fid, get_current_user(c))
    ELSE IF FeedbackById(fid) = {} THEN Reject(op, c, fid, 404)
    ELSE IF FeedbackAccess(c, f) # 200 THEN Reject(op, c, fid, 403)
    ELSE Return(op, c, fid,
                [responses |-> visible_responses(c, get_responses_with_user_info(fid))])

\* FeedbackUpdate(title=feedback_update.title, description=...,
\* rating=...): the three fields are passed to the constructor, so all
\* three are set, with None where the request had none
allowed_updates(patch) ==
    [f \in {"title", "description", "rating"} |->
        IF f \in DOMAIN patch THEN patch[f] ELSE None]

\* CRUDFeedback.update: obj_in.dict(exclude_unset=True), resolved_at when
\* the status becomes 'resolved', then setattr for every field
CRUDFeedback_update(f, patch) ==
    LET update_data ==
            IF "status" \in DOMAIN patch /\ patch.status = "resolved"
            THEN patch @@ [resolved_at |-> Some(now)]
            ELSE patch
    IN [k \in DOMAIN f |-> IF k \in DOMAIN update_data THEN update_data[k] ELSE f[k]]

\* PUT /feedback/{feedback_id}.  The response carries the request body.
update_feedback(c, fid, patch) ==
    LET op == "update_feedback"
        f == CHOOSE x \in FeedbackById(fid) : TRUE
        g == IF ~users[c].is_supervisor
             THEN CRUDFeedback_update(f, allowed_updates(patch))
             ELSE CRUDFeedback_update(f, patch)
        answer(code) == [op |-> op, caller |-> c, id |-> fid, code |-> code,
                         body |-> patch]
    IN
    IF get_current_user(c) # 200 THEN Reject(op, c, fid, get_current_user(c))
    ELSE IF FeedbackById(fid) = {} THEN Reject(op, c, fid, 404)
    ELSE IF FeedbackAccess(c, f) # 200 THEN Reject(op, c, fid, 403)
    ELSE IF ~IsSet(g.title) THEN Respond(answer(500)) /\ UNCHANGED db
    ELSE /\ feedback' = (feedback \ {f}) \cup {g}
         /\ Respond(answer(200))
         /\ UNCHANGED <<users, timesheets, entries, notifications, mappings, nextId,
                        now, feedback_responses, projects, project_members>>

\* DELETE /feedback/{feedback_id}: the row is deleted
delete_feedback(c, fid) ==
    LET op == "delete_feedback"
        f == CHOOSE x \in FeedbackById(fid) : TRUE
    IN
    IF get_current_user(c) # 200 THEN Reject(op, c, fid, get_current_user(c))
    ELSE IF FeedbackById(fid) = {} THEN Reject(op, c, fid, 404)
    ELSE IF FeedbackAccess(c, f) # 200 THEN Reject(op, c, fid, 403)
    ELSE /\ feedback' = feedback \ {f}
         /\ Ok(op, c, fid)
         /\ UNCHANGED <<users, timesheets, entries, notifications, mappings, nextId,
                        now, feedback_responses, projects, project_members>>

-----------------------------------------------------------------------------
(* crud/user.py: get_team_statistics.  The clock counts days. *)

\* timedelta(days=7)
OverdueDays == 7

\* team_timesheets: the submissions of the users whose supervisor_id is
\* this supervisor (no site filter)
team_timesheets(supervisor_id) ==
    {t \in DOMAIN timesheets :
        /\ CRUDUser_get(timesheets[t].user_id) # None
        /\ users[timesheets[t].user_id].supervisor_id = Some(supervisor_id)}

\* the submissions counted by overdue_count: pending, with submitted_at
\* before seven_days_ago
overdue(supervisor_id) ==
    {t \in team_timesheets(supervisor_id) :
        /\ timesheets[t].status = "pending"
        /\ IsSet(timesheets[t].submitted_at)
        /\ Val(timesheets[t].submitted_at) < now - OverdueDays}

\* GET /team/statistics
get_team_statistics(c) ==
    LET op == "get_team_statistics" IN
    IF get_current_supervisor(c) # 200 THEN Reject(op, c, 0, get_current_supervisor(c))
    ELSE Return(op, c, 0,
                [total_timesheets |-> Cardinality(team_timesheets(c)),
                 pending_count |-> Cardinality({t \in team_timesheets(c) :
                                                  timesheets[t].status = "pending"}),
                 overdue_count |-> Cardinality(overdue(c))])

\* days pass between two requests
Tick(days) ==
    /\ now' = now + days
    /\ UNCHANGED <<users, timesheets, entries, notifications, mappings, nextId,
                   more, resp, inflight>>

-----------------------------------------------------------------------------
(* api/api_v1/endpoints/dashboard.py and the analytics of timesheets.py.   *)
(* Every period of the model lies in the current month.  Rates are whole   *)
(* percents.                                                               *)

\* the caller's submissions of the current month in the caller's site
month_timesheets(uid, site_id) ==
    {t \in DOMAIN timesheets :
        timesheets[t].user_id = uid /\ timesheets[t].site_id = site_id}

Count(S, status) == Cardinality({t \in S : timesheets[t].status = status})

\* len([ts for ts in ... if ts.status != 'draft'])
Submitted(S) == Cardinality({t \in S : timesheets[t].status # "draft"})

\* submitted with submitted_at.day <= 5
OnTime(S) ==
    Cardinality({t \in S : /\ timesheets[t].status # "draft"
                           /\ IsSet(timesheets[t].submitted_at)
                           /\ Val(timesheets[t].submitted_at) <= 5})

\* a / b * 100: a value, or ZeroDivisionError raised when b = 0
ZeroDivisionError == <<>>
Percent(a, b) == IF b = 0 THEN ZeroDivisionError ELSE <<(a * 100) \div b>>

\* (a / b * 100) if b > 0 else 0
GuardedPercent(a, b) == IF b > 0 THEN Val(Percent(a, b)) ELSE 0

\* GET /dashboard/staff/overview
get_staff_dashboard_overview(c) ==
    LET op == "get_staff_dashboard_overview"
        S == month_timesheets(c, get_site_from_user(c)) IN
    IF get_current_user(c) # 200 THEN Reject(op, c, 0, get_current_user(c))
    ELSE Return(op, c, 0,
                [submitted_timesheets |-> Submitted(S),
                 completion_rate |-> GuardedPercent(Count(S, "approved"), Submitted(S))])

\* GET /dashboard/staff/performance-metrics
get_staff_performance_metrics(c) ==
    LET op == "get_staff_performance_metrics"
        S == month_timesheets(c, get_site_from_user(c))
        approval == GuardedPercent(Count(S, "approved"), Submitted(S))
        punctuality == GuardedPercent(OnTime(S), Submitted(S)) IN
    IF get_current_user(c) # 200 THEN Reject(op, c, 0, get_current_user(c))
    ELSE Return(op, c, 0,
                [total_submissions |-> Submitted(S),
                 overall_approval_rate |-> approval,
                 overall_punctuality_rate |-> punctuality,
                 perfectionist |-> IF Submitted(S) > 0 THEN approval >= 90 ELSE FALSE,
                 punctual |-> IF Submitted(S) > 0 THEN punctuality >= 80 ELSE FALSE])

\* the "status" of the approval_rate goal divides before it tests
\* submitted_count > 0
get_staff_goals_raises(submitted_count) ==
    Percent(0, submitted_count) = ZeroDivisionError

\* GET /dashboard/staff/goals
get_staff_goals(c) ==
    LET op == "get_staff_goals"
        S == month_timesheets(c, get_site_from_user(c))
        rate == GuardedPercent(Count(S, "approved"), Submitted(S)) IN
    IF get_current_user(c) # 200 THEN Reject(op, c, 0, get_current_user(c))
    ELSE IF get_staff_goals_raises(Submitted(S)) THEN Reject(op, c, 0, 500)
    ELSE Return(op, c, 0,
                [current |-> rate,
                 progress |-> IF rate < 100 THEN rate ELSE 100,
                 status |-> IF rate >= 95 THEN "completed" ELSE "in_progress"])

\* SupervisorDirectReport.site_id of a stored row: create_supervisor_mapping
\* builds the row from supervisor_id and direct_report_id only
SupervisorDirectReport_site_id(m) == None

\* supervisor_direct_report.get_direct_reports / user.get_staff_by_supervisor
get_direct_reports(supervisor_id, site_id) ==
    {u \in DOMAIN users :
        /\ users[u].site_id = site_id
        /\ \E m \in mappings : /\ m.supervisor_id = supervisor_id
                               /\ m.direct_report_id = u
                               /\ SupervisorDirectReport_site_id(m) = Some(site_id)}

\* CRUDTimesheetSubmission.get_pending_for_supervisor: through the
\* supervisor_direct_reports table
get_pending_for_supervisor(supervisor_id, site_id) ==
    {t \in DOMAIN timesheets :
        /\ timesheets[t].status = "pending"
        /\ timesheets[t].site_id = site_id
        /\ CRUDUser_get(timesheets[t].user_id) # None
        /\ \E m \in mappings : /\ m.direct_report_id = timesheets[t].user_id
                               /\ m.supervisor_id = supervisor_id
                               /\ SupervisorDirectReport_site_id(m) = Some(site_id)}

\* CRUDTimesheetSubmission.get_all_for_supervisor: through User.supervisor_id
get_all_for_supervisor(supervisor_id, site_id, status) ==
    {t \in DOMAIN timesheets :
        /\ CRUDUser_get(timesheets[t].user_id) # None
        /\ users[timesheets[t].user_id].supervisor_id = Some(supervisor_id)
        /\ users[timesheets[t].user_id].site_id = site_id
        /\ timesheets[t].site_id = site_id
        /\ IsSet(status) => timesheets[t].status = Val(status)}

\* GET /timesheets/pending/review: the response carries the ids listed
get_pending_timesheets(c) ==
    LET op == "get_pending_timesheets" IN
    IF get_current_supervisor(c) # 200 THEN Reject(op, c, 0, get_current_supervisor(c))
    ELSE Return(op, c, 0, get_pending_for_supervisor(c, get_site_from_user(c)))

\* GET /timesheets/team/all
get_all_team_timesheets(c, status) ==
    LET op == "get_all_team_timesheets" IN
    IF get_current_supervisor(c) # 200 THEN Reject(op, c, 0, get_current_supervisor(c))
    ELSE Return(op, c, 0,
                [status |-> status,
                 timesheets |-> get_all_for_supervisor(c, get_site_from_user(c), status)])

\* GET /dashboard/supervisor/team-overview
get_supervisor_team_overview(c) ==
    LET op == "get_supervisor_team_overview"
        team_members == get_direct_reports(c, get_site_from_user(c))
        S(u) == month_timesheets(u, get_site_from_user(c)) IN
    IF get_current_user(c) # 200 THEN Reject(op, c, 0, get_current_user(c))
    ELSE IF team_members = {} THEN Return(op, c, 0, [team_size |-> 0, team_members |-> {}])
    ELSE Return(op, c, 0,
                [team_size |-> Cardinality(team_members),
                 team_members |->
                    {[user_id |-> u,
                      approval_rate |-> GuardedPercent(Count(S(u), "approved"), Submitted(S(u)))]
                     : u \in team_members}])

\* GET /timesheets/analytics/staff-breakdown
get_staff_breakdown_analytics(c) ==
    LET op == "get_staff_breakdown_analytics"
        team_members == get_direct_reports(c, get_site_from_user(c))
        S(u) == {t \in DOMAIN timesheets : timesheets[t].user_id = u} IN
    IF get_current_supervisor(c) # 200 THEN Reject(op, c, 0, get_current_supervisor(c))
    ELSE Return(op, c, 0,
                {[user_id |-> u,
                  approval_rate |-> GuardedPercent(Count(S(u), "approved"), Cardinality(S(u)))]
                 : u \in team_members})

-----------------------------------------------------------------------------
(* crud/notification.py and api/api_v1/endpoints/notifications.py: the read *)
(* state of notifications                                                   *)

NotificationFrame ==
    UNCHANGED <<users, timesheets, entries, mappings, nextId, now, more>>

owned_notification_mutAnyUser(notification_id, user_id, site_id) ==
    {n \in notifications : n.id = notification_id /\ n.site_id = site_id}

\* the query of mark_as_read and delete: the row with this id, recipient and
\* site
owned_notification(notification_id, user_id, site_id) ==
    {n \in notifications :
        n.id = notification_id /\ n.user_id = user_id /\ n.site_id = site_id}

\* the rows get_unread_count counts and mark_all_as_read updates
unread(user_id, site_id) ==
    {n \in notifications :
        n.user_id = user_id /\ n.site_id = site_id /\ n.is_read = FALSE}

\* is_read = True, read_at = utcnow()
Read(n) == [n EXCEPT !.is_read = TRUE, !.read_at = Some(now)]

\* GET /notifications/unread-count
get_unread_count(c) ==
    LET op == "get_unread_count" IN
    IF get_current_user(c) # 200 THEN Reject(op, c, 0, get_current_user(c))
    ELSE Return(op, c, 0, Cardinality(unread(c, get_site_from_user(c))))

\* PUT /notifications/{notification_id}/read: a row already read is
\* returned as it is
mark_notification_as_read(c, nid) ==
    LET op == "mark_notification_as_read"
        found == owned_notification(nid, c, get_site_from_user(c)) IN
    IF get_current_user(c) # 200 THEN Reject(op, c, nid, get_current_user(c))
    ELSE IF found = {} THEN Reject(op, c, nid, 404)
    ELSE LET n == CHOOSE x \in found : TRUE IN
         /\ notifications' = IF ~n.is_read
                             THEN (notifications \ {n}) \cup {Read(n)}
                             ELSE notifications
         /\ Ok(op, c, nid)
         /\ NotificationFrame

\* PUT /notifications/mark-all-read: the response carries updated_count
mark_all_notifications_as_read(c) ==
    LET op == "mark_all_notifications_as_read"
        rows == unread(c, get_site_from_user(c)) IN
    IF get_current_user(c) # 200 THEN Reject(op, c, 0, get_current_user(c))
    ELSE /\ notifications' = (notifications \ rows) \cup {Read(n) : n \in rows}
         /\ Respond([op |-> op, caller |-> c, id |-> 0, code |-> 200,
                     body |-> Cardinality(rows)])
         /\ NotificationFrame

\* DELETE /notifications/{notification_id}
delete_notification(c, nid) ==
    LET op == "delete_notification"
        found == owned_notification(nid, c, get_site_from_user(c)) IN
    IF get_current_user(c) # 200 THEN Reject(op, c, nid, get_current_user(c))
    ELSE IF found = {} THEN Reject(op, c, nid, 404)
    ELSE /\ notifications' = notifications \ found
         /\ Ok(op, c, nid)
         /\ NotificationFrame

-----------------------------------------------------------------------------
(* api/api_v1/endpoints/timesheets.py: bulk entries and CSV upload *)

\* timesheet_entry.create, which crud/user.py does not define: like every
\* create of crud/, it adds the row and commits (get_db never commits, so
\* nothing else could store the rows of a successful request).  The i-th
\* row created by one request:
CRUDTimesheetEntry_create(tid, i, total_hours) ==
    [id |-> nextId.entry + i - 1, submission_id |-> tid,
     total_hours |-> Some(total_hours)]

\* the rows the loop gets through before datetime.strptime raises ValueError
ValidPrefix(rows) ==
    CHOOSE n \in 0..Len(rows) :
        /\ \A i \in 1..n : rows[i].date_ok
        /\ n < Len(rows) => ~rows[n + 1].date_ok

\* the checks on the timesheet shared by both handlers
BulkAccess(c, tid) ==
    IF CRUDTimesheetSubmission_get(tid, get_site_from_user(c)) = None THEN 404
    ELSE IF timesheets[tid].user_id # c THEN 403
    ELSE IF timesheets[tid].status # "draft" THEN 400
    ELSE 200

\* the loop of create_bulk_timesheet_entries for a request that passed the
\* checks: one create per row until a row fails to parse; error is the
\* status sent for the HTTPException(400) raised then
BulkLoop(op, c, tid, rows, error) ==
    LET n == ValidPrefix(rows) IN
    /\ entries' = entries \cup
          {CRUDTimesheetEntry_create(tid, i, rows[i].total_hours) : i \in 1..n}
    /\ nextId' = [nextId EXCEPT !.entry = @ + n]
    /\ Respond([op |-> op, caller |-> c, id |-> tid,
                code |-> IF n = Len(rows) THEN 200 ELSE error])
    /\ UNCHANGED <<users, timesheets, notifications, mappings, now, more>>

\* POST /{timesheet_id}/bulk-entries
create_bulk_timesheet_entries(c, tid, rows) ==
    LET op == "create_bulk_timesheet_entries" IN
    IF get_current_user(c) # 200 THEN Reject(op, c, tid, get_current_user(c))
    ELSE IF BulkAccess(c, tid) # 200 THEN Reject(op, c, tid, BulkAccess(c, tid))
    ELSE BulkLoop(op, c, tid, rows, 400)

\* POST /{timesheet_id}/upload-csv.  Every row is checked for its required
\* columns before the bulk handler is called; an HTTPException raised
\* inside the try block, its own or the bulk handler's, is caught by
\* 'except Exception' and sent as 500.
upload_timesheet_csv(c, tid, is_csv, rows) ==
    LET op == "upload_timesheet_csv" IN
    IF get_current_user(c) # 200 THEN Reject(op, c, tid, get_current_user(c))
    ELSE IF BulkAccess(c, tid) # 200 THEN Reject(op, c, tid, BulkAccess(c, tid))
    ELSE IF ~is_csv THEN Reject(op, c, tid, 400)
    ELSE IF \E i \in 1..Len(rows) : ~rows[i].has_required THEN Reject(op, c, tid, 500)
    ELSE IF rows = <<>> THEN Reject(op, c, tid, 500)
    ELSE BulkLoop(op, c, tid, rows, 500)

-----------------------------------------------------------------------------
(* api/api_v1/endpoints/projects.py and crud/project.py *)

\* Project(**obj_in.dict())
ProjectRow(site_id, name, description, is_active) ==
    [id |-> nextId.project, site_id |-> site_id, name |-> name,
     description |-> description, is_active |-> is_active]

\* CRUDProject.get
CRUDProject_get(id, site_id) == {p \in projects : p.id = id /\ p.site_id = site_id}

\* CRUDProject.get_by_name: inactive rows count too
get_by_name(name, site_id) ==
    {p \in projects : p.name = name /\ p.site_id = site_id}

\* CRUDProject.get_multi
CRUDProject_get_multi(site_id, active_only) ==
    {p \in projects : p.site_id = site_id /\ (active_only => p.is_active)}

\* CRUDProject.get_user_projects
get_user_projects(user_id, site_id) ==
    {p \in projects :
        /\ p.is_active
        /\ \E m \in project_members :
              /\ m.project_id = p.id /\ m.user_id = user_id
              /\ m.site_id = site_id /\ m.is_active}

\* UniqueConstraint('site_id', 'name', name='_site_project_uc')
site_project_uc(rows) ==
    \A p, q \in rows : (p.site_id = q.site_id /\ p.name = q.name) => p.id = q.id

\* current_user.role.value in ["admin", "supervisor"]
ManagesProjects(c) == users[c].role \in {"admin", "supervisor"}

\* Python's truth value of a str
Truthy(str) == str # ""

\* the rows with p replaced by q
ReplaceRow(rows, p, q) == (rows \ {p}) \cup {q}

\* CRUDProject.update, CRUDProjectMember.update: setattr for every set field
PatchRow(row, patch) ==
    [f \in DOMAIN row |-> IF f \in DOMAIN patch THEN patch[f] ELSE row[f]]

ProjectFrame ==
    UNCHANGED <<users, timesheets, entries, notifications, mappings, now,
                feedback, feedback_responses>>

\* GET /projects/.  The response of a listing carries its active_only
\* parameter and the rows returned.
read_projects(c, active_only) ==
    LET op == "read_projects" IN
    IF get_current_user(c) # 200 THEN Reject(op, c, 0, get_current_user(c))
    ELSE Return(op, c, 0,
                [active_only |-> active_only,
                 rows |-> CRUDProject_get_multi(get_site_from_user(c), active_only)])

\* GET /projects/my-projects
read_my_projects(c) ==
    LET op == "read_my_projects" IN
    IF get_current_user(c) # 200 THEN Reject(op, c, 0, get_current_user(c))
    ELSE Return(op, c, 0,
                [active_only |-> TRUE,
                 rows |-> get_user_projects(c, get_site_from_user(c))])

create_project_mutNoNameCheck(c, name, description, is_active) ==
    LET op == "create_project"
        row == ProjectRow(get_site_from_user(c), name, description, is_active)
        answer(id, code) == [op |-> op, caller |-> c, id |-> id, code |-> code,
                             body |-> name]
    IN
    IF get_current_user(c) # 200 THEN Reject(op, c, 0, get_current_user(c))
    ELSE IF ~ManagesProjects(c) THEN Reject(op, c, 0, 403)
    ELSE IF ~site_project_uc(projects \cup {row})
         THEN Respond(answer(0, 500)) /\ UNCHANGED db
    ELSE /\ projects' = projects \cup {row}
         /\ nextId' = [nextId EXCEPT !.project = @ + 1]
         /\ Respond(answer(nextId.project, 200))
         /\ UNCHANGED project_members
         /\ ProjectFrame

\* POST /projects/.  The response carries the requested name.
create_project(c, name, description, is_active) ==
    LET op == "create_project"
        row == ProjectRow(get_site_from_user(c), name, description, is_active)
        answer(id, code) == [op |-> op, caller |-> c, id |-> id, code |-> code,
                             body |-> name]
    IN
    IF get_current_user(c) # 200 THEN Reject(op, c, 0, get_current_user(c))
    ELSE IF ~ManagesProjects(c) THEN Reject(op, c, 0, 403)
    ELSE IF get_by_name(name, get_site_from_user(c)) # {}
         THEN Respond(answer(0, 400)) /\ UNCHANGED db
    ELSE IF ~site_project_uc(projects \cup {row})
         THEN Respond(answer(0, 500)) /\ UNCHANGED db
    ELSE /\ projects' = projects \cup {row}
         /\ nextId' = [nextId EXCEPT !.project = @ + 1]
         /\ Respond(answer(nextId.project, 200))
         /\ UNCHANGED project_members
         /\ ProjectFrame

\* A create_project request served concurrently with others.  Its first
\* step runs the checks, get_by_name included, and keeps the request in
\* flight.
create_project_begin(req, c, name, description, is_active) ==
    LET op == "create_project" IN
    /\ \A r \in inflight : r.req # req
    /\ IF get_current_user(c) # 200 THEN Reject(op, c, 0, get_current_user(c))
       ELSE IF ~ManagesProjects(c) THEN Reject(op, c, 0, 403)
       ELSE IF get_by_name(name, get_site_from_user(c)) # {}
       THEN Respond([op |-> op, caller |-> c, id |-> 0, code |-> 400, body |-> name])
            /\ UNCHANGED db
       ELSE /\ inflight' = inflight \cup
                    {[req |-> req, op |-> op, caller |-> c, name |-> name,
                      description |-> description, is_active |-> is_active]}
            /\ UNCHANGED <<db, resp>>

create_project_finish_mutNoConstraint(r) ==
    LET row == ProjectRow(get_site_from_user(r.caller), r.name, r.description,
                          r.is_active)
    IN
    /\ r \in inflight /\ r.op = "create_project"
    /\ inflight' = inflight \ {r}
    /\ projects' = projects \cup {row}
    /\ nextId' = [nextId EXCEPT !.project = @ + 1]
    /\ resp' = [op |-> r.op, caller |-> r.caller, id |-> nextId.project,
                code |-> 200, body |-> r.name]
    /\ UNCHANGED project_members
    /\ ProjectFrame

\* Its second step, CRUDProject.create: the commit of the insert raises
\* IntegrityError when _site_project_uc is broken, otherwise the row is
\* stored
create_project_finish(r) ==
    LET row == ProjectRow(get_site_from_user(r.caller), r.name, r.description,
                          r.is_active)
    IN
    /\ r \in inflight /\ r.op = "create_project"
    /\ inflight' = inflight \ {r}
    /\ IF ~site_project_uc(projects \cup {row})
       THEN /\ resp' = [op |-> r.op, caller |-> r.caller, id |-> 0, code |-> 500,
                        body |-> r.name]
            /\ UNCHANGED db
       ELSE /\ projects' = projects \cup {row}
            /\ nextId' = [nextId EXCEPT !.project = @ + 1]
            /\ resp' = [op |-> r.op, caller |-> r.caller, id |-> nextId.project,
                        code |-> 200, body |-> r.name]
            /\ UNCHANGED project_members
            /\ ProjectFrame

\* PUT /projects/{project_id}.  The response carries the request body.
update_project(c, pid, patch) ==
    LET op == "update_project"
        site_id == get_site_from_user(c)
        p == CHOOSE x \in CRUDProject_get(pid, site_id) : TRUE
        rows == ReplaceRow(projects, p, PatchRow(p, patch))
        answer(code) == [op |-> op, caller |-> c, id |-> pid, code |-> code,
                         body |-> patch]
    IN
    IF get_current_user(c) # 200 THEN Reject(op, c, pid, get_current_user(c))
    ELSE IF ~ManagesProjects(c) THEN Reject(op, c, pid, 403)
    ELSE IF CRUDProject_get(pid, site_id) = {} THEN Reject(op, c, pid, 404)
    ELSE IF /\ "name" \in DOMAIN patch
            /\ Truthy(patch.name) /\ patch.name # p.name
            /\ get_by_name(patch.name, site_id) # {}
         THEN Respond(answer(400)) /\ UNCHANGED db
    ELSE IF ~site_project_uc(rows) THEN Respond(answer(500)) /\ UNCHANGED db
    ELSE /\ projects' = rows
         /\ Respond(answer(200))
         /\ UNCHANGED <<project_members, nextId>>
         /\ ProjectFrame

delete_project_mutHard(c, pid) ==
    LET op == "delete_project"
        site_id == get_site_from_user(c)
        p == CHOOSE x \in CRUDProject_get(pid, site_id) : TRUE
    IN
    IF get_current_user(c) # 200 THEN Reject(op, c, pid, get_current_user(c))
    ELSE IF users[c].role # "admin" THEN Reject(op, c, pid, 403)
    ELSE IF CRUDProject_get(pid, site_id) = {} THEN Reject(op, c, pid, 404)
    ELSE /\ projects' = projects \ {p}
         /\ Ok(op, c, pid)
         /\ UNCHANGED <<project_members, nextId>>
         /\ ProjectFrame

\* DELETE /projects/{project_id}
delete_project(c, pid) ==
    LET op == "delete_project"
        site_id == get_site_from_user(c)
        p == CHOOSE x \in CRUDProject_get(pid, site_id) : TRUE
    IN
    IF get_current_user(c) # 200 THEN Reject(op, c, pid, get_current_user(c))
    ELSE IF users[c].role # "admin" THEN Reject(op, c, pid, 403)
    ELSE IF CRUDProject_get(pid, site_id) = {} THEN Reject(op, c, pid, 404)
    ELSE /\ projects' = ReplaceRow(projects, p, [p EXCEPT !.is_active = FALSE])
         /\ Ok(op, c, pid)
         /\ UNCHANGED <<project_members, nextId>>
         /\ ProjectFrame

\* ProjectMember(**obj_in.dict())
ProjectMemberRow(site_id, project_id, user_id, role) ==
    [id |-> nextId.member, site_id |-> site_id, project_id |-> project_id,
     user_id |-> user_id, role |-> role, is_active |-> TRUE]

\* CRUDProjectMember.get_by_project_and_user
get_by_project_and_user(project_id, user_id, site_id) ==
    {m \in project_members :
        m.project_id = project_id /\ m.user_id = user_id /\ m.site_id = site_id}

\* CRUDProjectMember.get_project_members
get_project_members(project_id, site_id, active_only) ==
    {m \in project_members :
        /\ m.project_id = project_id /\ m.site_id = site_id
        /\ active_only => m.is_active}

add_project_member_mutAlwaysInsert(c, pid, uid, role) ==
    LET op == "add_project_member"
        site_id == get_site_from_user(c)
        answer(code) == [op |-> op, caller |-> c, id |-> pid, code |-> code,
                         body |-> [user_id |-> uid, role |-> role]]
    IN
    IF get_current_user(c) # 200 THEN Reject(op, c, pid, get_current_user(c))
    ELSE IF ~ManagesProjects(c) THEN Reject(op, c, pid, 403)
    ELSE IF CRUDProject_get(pid, site_id) = {} THEN Reject(op, c, pid, 404)
    ELSE /\ project_members' =
               project_members \cup {ProjectMemberRow(site_id, pid, uid, role)}
         /\ nextId' = [nextId EXCEPT !.member = @ + 1]
         /\ Respond(answer(200))
         /\ UNCHANGED projects
         /\ ProjectFrame

\* POST /projects/{project_id}/members: an inactive membership is
\* reactivated.  The response carries the user_id and role of the request.
add_project_member(c, pid, uid, role) ==
    LET op == "add_project_member"
        site_id == get_site_from_user(c)
        existing == get_by_project_and_user(pid, uid, site_id)
        m == CHOOSE x \in existing : TRUE
        answer(code) == [op |-> op, caller |-> c, id |-> pid, code |-> code,
                         body |-> [user_id |-> uid, role |-> role]]
    IN
    IF get_current_user(c) # 200 THEN Reject(op, c, pid, get_current_user(c))
    ELSE IF ~ManagesProjects(c) THEN Reject(op, c, pid, 403)
    ELSE IF CRUDProject_get(pid, site_id) = {} THEN Reject(op, c, pid, 404)
    ELSE IF existing # {} /\ m.is_active THEN Respond(answer(400)) /\ UNCHANGED db
    ELSE /\ IF existing # {}
            THEN /\ project_members' =
                       ReplaceRow(project_members, m,
                                  PatchRow(m, [role |-> role, is_active |-> TRUE]))
                 /\ UNCHANGED nextId
            ELSE /\ project_members' =
                       project_members \cup {ProjectMemberRow(site_id, pid, uid, role)}
                 /\ nextId' = [nextId EXCEPT !.member = @ + 1]
         /\ Respond(answer(200))
         /\ UNCHANGED projects
         /\ ProjectFrame

\* GET /projects/{project_id}/members
read_project_members(c, pid, active_only) ==
    LET op == "read_project_members"
        site_id == get_site_from_user(c)
    IN
    IF get_current_user(c) # 200 THEN Reject(op, c, pid, get_current_user(c))
    ELSE IF CRUDProject_get(pid, site_id) = {} THEN Reject(op, c, pid, 404)
    ELSE Return(op, c, pid,
                [active_only |-> active_only,
                 rows |-> get_project_members(pid, site_id, active_only)])

\* PUT /projects/{project_id}/members/{user_id}
update_project_member(c, pid, uid, patch) ==
    LET op == "update_project_member"
        site_id == get_site_from_user(c)
        existing == get_by_project_and_user(pid, uid, site_id)
        m == CHOOSE x \in existing : TRUE
    IN
    IF get_current_user(c) # 200 THEN Reject(op, c, pid, get_current_user(c))
    ELSE IF ~ManagesProjects(c) THEN Reject(op, c, pid, 403)
    ELSE IF existing = {} THEN Reject(op, c, pid, 404)
    ELSE /\ project_members' = ReplaceRow(project_members, m, PatchRow(m, patch))
         /\ Ok(op, c, pid)
         /\ UNCHANGED <<projects, nextId>>
         /\ ProjectFrame

\* DELETE /projects/{project_id}/members/{user_id}.  The response carries
\* the user_id of the path.
remove_project_member(c, pid, uid) ==
    LET op == "remove_project_member"
        site_id == get_site_from_user(c)
        existing == get_by_project_and_user(pid, uid, site_id)
        m == CHOOSE x \in existing : TRUE
    IN
    IF get_current_user(c) # 200 THEN Reject(op, c, pid, get_current_user(c))
    ELSE IF ~ManagesProjects(c) THEN Reject(op, c, pid, 403)
    ELSE IF existing = {} THEN Reject(op, c, pid, 404)
    ELSE /\ project_members' =
               ReplaceRow(project_members, m, [m EXCEPT !.is_active = FALSE])
         /\ Respond([op |-> op, caller |-> c, id |-> pid, code |-> 200, body |-> uid])
         /\ UNCHANGED <<projects, nextId>>
         /\ ProjectFrame

-----------------------------------------------------------------------------
(* The specifications.  Each draws its requests from every user of the     *)
(* seed and from the ids the bounds allow; a bound only stops the tables   *)
(* from growing.                                                           *)

UserIds      == DOMAIN users
TimesheetIds == 1..(Len(timesheets) + 1)
EntryIds     == 1..nextId.entry

\* total_hours of a created entry (float, default 0.0) and of an update
\* (Optional[float]: a value or an explicit null)
CreateHours == {Some(h) : h \in HourInputs}
UpdateHours == CreateHours \cup {None}

WorkflowNext(maxSheets, approveNotes) ==
    \/ \E c \in UserIds, p \in Periods :
          Len(timesheets) < maxSheets /\ create_timesheet(c, p)
    \/ \E c \in UserIds, t \in TimesheetIds : submit_timesheet(c, t)
    \/ \E c \in UserIds, t \in TimesheetIds, n \in approveNotes :
          approve_timesheet(c, t, n)
    \/ \E c \in UserIds, t \in TimesheetIds, n \in RejectNotes :
          reject_timesheet(c, t, n)

EntryNext ==
    \/ \E c \in UserIds, t \in TimesheetIds, h \in CreateHours :
          nextId.entry <= MaxEntries /\ create_timesheet_entry(c, t, h)
    \/ \E c \in UserIds, t \in TimesheetIds, e \in EntryIds, h \in UpdateHours :
          update_timesheet_entry(c, t, e, h)
    \/ \E c \in UserIds, t \in TimesheetIds, e \in EntryIds :
          delete_timesheet_entry(c, t, e)
    \/ \E c \in UserIds, t \in TimesheetIds, h \in CreateHours :
          nextId.entry <= MaxEntries /\ create_entry(c, t, h)
    \/ \E c \in UserIds, e \in EntryIds, h \in UpdateHours : update_entry(c, e, h)
    \/ \E c \in UserIds, e \in EntryIds : delete_entry(c, e)

(* Spec: the approval workflow *)
Next == WorkflowNext(MaxTimesheets, ApproveNotes)

Spec == Init /\ [][Next]_vars

(* SpecEntries: the approval workflow of one user and one supervisor, with *)
(* the entry handlers                                                      *)
EntriesInit == Init

EntriesNext ==
    \/ WorkflowNext(MaxEntrySheets, {None})
    \/ EntryNext

SpecEntries == EntriesInit /\ [][EntriesNext]_vars

(* SpecFeedback: feedback items, their responses and the two reads *)
FeedbackInit == Init

FeedbackIds == 1..nextId.feedback

FeedbackNext ==
    \/ \E c \in UserIds :
          nextId.feedback <= MaxFeedback /\ create_feedback(c, Some("t1"), None, None)
    \/ \E c \in UserIds, f \in FeedbackIds, i \in BOOLEAN :
          nextId.response <= MaxResponses /\ add_feedback_response(c, f, i)
    \/ \E c \in UserIds, f \in FeedbackIds : get_feedback(c, f)
    \/ \E c \in UserIds, f \in FeedbackIds : get_feedback_responses(c, f)

SpecFeedback == FeedbackInit /\ [][FeedbackNext]_vars

(* SpecProjects: the projects of two sites.  User 3 is the admin of site 1, *)
(* user 4 the admin of site 2.                                             *)
ProjectsInit ==
    InitWith((3 :> SeedUsers[3]) @@
             (4 :> UserRow(2, "Other Admin", "admin", FALSE, None)))

ProjectIds == 1..nextId.project

ProjectNames == {"", "p"}

\* ProjectUpdate bodies
ProjectPatches ==
    {[name |-> n] : n \in ProjectNames} \cup
    {[is_active |-> TRUE], [description |-> Some("d")]}

ProjectsNext ==
    \/ \E c \in UserIds, n \in ProjectNames :
          nextId.project <= MaxProjects /\ create_project(c, n, None, TRUE)
    \/ \E c \in UserIds, p \in ProjectIds, patch \in ProjectPatches :
          update_project(c, p, patch)
    \/ \E c \in UserIds, p \in ProjectIds : delete_project(c, p)

SpecProjects == ProjectsInit /\ [][ProjectsNext]_vars

(* SpecMembers: one site, its projects, their memberships and the listings *)
MembersInit ==
    InitWith((1 :> UserRow(1, "Alice Smith", "staff", FALSE, None)) @@
             (3 :> SeedUsers[3]))

MemberIds == {1, 3}

\* ProjectMemberUpdate bodies
MemberPatches == {[role |-> "lead"], [is_active |-> FALSE]}

MembersNext ==
    \/ \E c \in UserIds, active_only \in BOOLEAN : read_projects(c, active_only)
    \/ \E c \in UserIds : read_my_projects(c)
    \/ \E c \in UserIds :
          nextId.project <= MaxMemberProjects /\ create_project(c, "p", None, TRUE)
    \/ \E c \in UserIds, p \in ProjectIds : update_project(c, p, [is_active |-> TRUE])
    \/ \E c \in UserIds, p \in ProjectIds : delete_project(c, p)
    \/ \E c \in UserIds, p \in ProjectIds, u \in MemberIds :
          /\ \/ nextId.member <= MaxMembers
             \/ \E m \in project_members : m.project_id = p /\ m.user_id = u
          /\ add_project_member(c, p, u, "member")
    \/ \E c \in UserIds, p \in ProjectIds, active_only \in BOOLEAN :
          read_project_members(c, p, active_only)
    \/ \E c \in UserIds, p \in ProjectIds, u \in MemberIds, patch \in MemberPatches :
          update_project_member(c, p, u, patch)
    \/ \E c \in UserIds, p \in ProjectIds, u \in MemberIds :
          remove_project_member(c, p, u)

SpecMembers == MembersInit /\ [][MembersNext]_vars

(* SpecAuth: requests of active, deactivated and unknown users.  A token *)
(* stays valid when its user is deactivated or does not exist.          *)
AuthInit == Init

\* a user id that verify_access_token returns and no row has
MissingUser == 9

Callers == DOMAIN users \cup {MissingUser}

\* UserUpdate bodies that deactivate or reactivate
ActivePatches == {[is_active |-> b] : b \in BOOLEAN}

AuthNext ==
    \/ \E c \in Callers, patch \in ActivePatches : update_current_user(c, patch)
    \/ \E c \in Callers, u \in UserIds, patch \in ActivePatches :
          update_user(c, u, patch)
    \/ \E c \in Callers, p \in Periods :
          Len(timesheets) < MaxUserSheets /\ create_timesheet(c, p)
    \/ \E c \in Callers, t \in TimesheetIds : submit_timesheet(c, t)
    \/ \E c \in Callers, t \in TimesheetIds : approve_timesheet(c, t, None)
    \/ \E c \in Callers :
          nextId.feedback <= MaxFeedback /\ create_feedback(c, Some("t1"), None, None)

SpecAuth == AuthInit /\ [][AuthNext]_vars

(* SpecFeedbackUpdate: feedback items edited by their owner and by a *)
(* supervisor                                                         *)
FeedbackUpdateInit == Init

\* FeedbackUpdate bodies
FeedbackPatches ==
    {[title |-> Some("t2")], [rating |-> Some(5)], [description |-> Some("d2")],
     [status |-> "resolved"], [title |-> Some("t2"), priority |-> "high"]}

FeedbackUpdateNext ==
    \/ \E c \in UserIds :
          nextId.feedback <= MaxFeedback
            /\ create_feedback(c, Some("t1"), Some("d1"), Some(4))
    \/ \E c \in UserIds, f \in FeedbackIds, patch \in FeedbackPatches :
          update_feedback(c, f, patch)
    \/ \E c \in UserIds, f \in FeedbackIds : delete_feedback(c, f)

SpecFeedbackUpdate == FeedbackUpdateInit /\ [][FeedbackUpdateNext]_vars

(* SpecSites: the approval workflow in two sites.  User 2 is the *)
(* supervisor of site 1, user 6 a staff member of site 2.         *)
SitesInit ==
    InitWith((2 :> SeedUsers[2]) @@
             (6 :> UserRow(2, "Bob Jones", "staff", FALSE, None)))

SitesNext ==
    \/ WorkflowNext(MaxUserSheets, ApproveNotes)
    \/ \E c \in UserIds, t \in TimesheetIds : get_timesheet(c, t)

SpecSites == SitesInit /\ [][SitesNext]_vars

(* SpecBulk: bulk creation and CSV upload of entries *)
BulkInit == Init

\* a row of a bulk request: its date parses or not; a CSV row also has its
\* required columns or not
BulkRow == [date_ok : BOOLEAN, total_hours : {1}]
CsvRow  == [date_ok : BOOLEAN, total_hours : {1}, has_required : BOOLEAN]

\* the sequences over S with at most MaxBulkRows rows
RowsOf(S) == UNION {[1..n -> S] : n \in 0..MaxBulkRows}

BulkNext ==
    \/ \E c \in UserIds, p \in Periods :
          Len(timesheets) < MaxUserSheets /\ create_timesheet(c, p)
    \/ \E c \in UserIds, t \in TimesheetIds : submit_timesheet(c, t)
    \/ \E c \in UserIds, t \in TimesheetIds, rows \in RowsOf(BulkRow) :
          /\ nextId.entry + Len(rows) - 1 <= MaxBulkEntries
          /\ create_bulk_timesheet_entries(c, t, rows)
    \/ \E c \in UserIds, t \in TimesheetIds, is_csv \in BOOLEAN,
            rows \in RowsOf(CsvRow) :
          /\ nextId.entry + Len(rows) - 1 <= MaxBulkEntries
          /\ upload_timesheet_csv(c, t, is_csv, rows)

SpecBulk == BulkInit /\ [][BulkNext]_vars

(* SpecClock: timesheets created and submitted while days pass, and the *)
(* supervisor's team statistics                                        *)
ClockInit == Init

\* the days that pass in one step
TickDays == {1, 8}

ClockNext ==
    \/ \E d \in TickDays : now + d <= MaxNow /\ Tick(d)
    \/ \E c \in UserIds, p \in Periods :
          Len(timesheets) < MaxUserSheets /\ create_timesheet(c, p)
    \/ \E c \in UserIds, t \in TimesheetIds : submit_timesheet(c, t)
    \/ \E c \in UserIds : get_team_statistics(c)

SpecClock == ClockInit /\ [][ClockNext]_vars

(* SpecDashboard: the approval workflow and the aggregations read from it *)
DashboardInit == Init

DashboardNext ==
    \/ WorkflowNext(MaxUserSheets, ApproveNotes)
    \/ \E c \in UserIds : get_staff_dashboard_overview(c)
    \/ \E c \in UserIds : get_staff_performance_metrics(c)
    \/ \E c \in UserIds : get_staff_goals(c)
    \/ \E c \in UserIds : get_supervisor_team_overview(c)
    \/ \E c \in UserIds : get_staff_breakdown_analytics(c)

SpecDashboard == DashboardInit /\ [][DashboardNext]_vars

(* SpecRace: review requests served concurrently, each in two steps *)
RaceInit == Init

\* the requests that can be in flight together
Requests == 1..MaxRequests

RaceNext ==
    \/ \E c \in UserIds, p \in Periods :
          Len(timesheets) < MaxUserSheets /\ create_timesheet(c, p)
    \/ \E c \in UserIds, t \in TimesheetIds : submit_timesheet(c, t)
    \/ \E q \in Requests, c \in UserIds, t \in TimesheetIds, n \in ApproveNotes :
          review_begin(q, "approve_timesheet", "approved", c, t, n)
    \/ \E q \in Requests, c \in UserIds, t \in TimesheetIds, n \in RejectNotes :
          review_begin(q, "reject_timesheet", "rejected", c, t, n)
    \/ \E r \in inflight : review_finish(r)

SpecRace == RaceInit /\ [][RaceNext]_vars

(* SpecProjectRace: create_project requests served concurrently, each in *)
(* two steps, by the admins of two sites                                  *)
ProjectRaceInit == ProjectsInit

ProjectRaceNext ==
    \/ \E q \in Requests, c \in UserIds, n \in ProjectNames :
          /\ nextId.project + Cardinality(inflight) <= MaxProjects
          /\ create_project_begin(q, c, n, None, TRUE)
    \/ \E r \in inflight : create_project_finish(r)
    \/ \E c \in UserIds, p \in ProjectIds : delete_project(c, p)

SpecProjectRace == ProjectRaceInit /\ [][ProjectRaceNext]_vars

(* SpecTeam: the seeded users, their timesheets, the supervisor-mapping *)
(* handlers and the two lists a supervisor reads                       *)
TeamInit == InitWith(SeedUsers)

StatusFilters == {None, Some("pending")}

TeamNext ==
    \/ \E c \in UserIds, p \in Periods :
          Len(timesheets) < MaxUserSheets /\ create_timesheet(c, p)
    \/ \E c \in UserIds, t \in TimesheetIds : submit_timesheet(c, t)
    \/ \E c \in UserIds, s \in UserIds, d \in UserIds :
          create_supervisor_mapping(c, s, d)
    \/ \E c \in UserIds, m \in 1..nextId.mapping, s \in UserIds, d \in UserIds :
          update_supervisor_mapping(c, m, Some(s), Some(d))
    \/ \E c \in UserIds, m \in 1..nextId.mapping : delete_supervisor_mapping(c, m)
    \/ \E c \in UserIds : get_pending_timesheets(c)
    \/ \E c \in UserIds, f \in StatusFilters : get_all_team_timesheets(c, f)

SpecTeam == TeamInit /\ [][TeamNext]_vars

(* SpecNotifications: the store after staff user 1 has created and       *)
(* submitted a timesheet (the supervisor has its notification), then the  *)
(* approval that notifies the owner, the clock and the handlers of the    *)
(* read state                                                             *)
NotificationsInit ==
    /\ now = 1
    /\ users = [u \in {1, 2} |-> SeedUsers[u]]
    /\ nextId = [entry |-> 1, notification |-> 2, mapping |-> 1,
                 feedback |-> 1, response |-> 1, project |-> 1, member |-> 1]
    /\ timesheets = <<[CRUDTimesheetSubmission_create(1, 1, 1) EXCEPT
                          !.status = "pending", !.total_hours = Some(0)]>>
    /\ notifications =
          {[create_pending_approval_notification(2, 1, 1) EXCEPT !.id = 1]}
    /\ entries = {}
    /\ mappings = {}
    /\ feedback = {}
    /\ feedback_responses = {}
    /\ projects = {}
    /\ project_members = {}
    /\ resp = [op |-> "submit_timesheet", caller |-> 1, id |-> 1, code |-> 200]
    /\ inflight = {}

NotificationIds == 1..nextId.notification

NotificationsNext ==
    \/ now + 1 <= MaxReadDay /\ Tick(1)
    \/ \E c \in UserIds, t \in TimesheetIds : approve_timesheet(c, t, None)
    \/ \E c \in UserIds : get_unread_count(c)
    \/ \E c \in UserIds, n \in NotificationIds : mark_notification_as_read(c, n)
    \/ \E c \in UserIds : mark_all_notifications_as_read(c)
    \/ \E c \in UserIds, n \in NotificationIds : delete_notification(c, n)

SpecNotifications == NotificationsInit /\ [][NotificationsNext]_vars

(* SpecFaults: the approval workflow where the notification insert or the *)
(* email of a submit, approve or reject may fail                           *)
FaultsInit == Init

FaultsNext ==
    \/ \E c \in UserIds, p \in Periods :
          Len(timesheets) < MaxUserSheets /\ create_timesheet(c, p)
    \/ \E c \in UserIds, t \in TimesheetIds, o \in NotifyOutcomes :
          submit_timesheet_outcome(c, t, o)
    \/ \E c \in UserIds, t \in TimesheetIds, o \in NotifyOutcomes :
          ReviewOutcome("approve_timesheet", "approved", c, t, None, o)
    \/ \E c \in UserIds, t \in TimesheetIds, n \in RejectNotes,
          o \in NotifyOutcomes :
          ReviewOutcome("reject_timesheet", "rejected", c, t, n, o)

SpecFaults == FaultsInit /\ [][FaultsNext]_vars

(* SpecRoles: the approval workflow with the handlers that change a user's *)
(* role and is_supervisor flag, for a staff user and the admin             *)
RolesInit ==
    InitWith((1 :> UserRow(1, "Alice Smith", "staff", FALSE, None)) @@
             (3 :> SeedUsers[3]))

Roles == {"staff", "supervisor", "admin"}

\* UserUpdate bodies that touch role or is_supervisor
RolePatches ==
    {[is_supervisor |-> b] : b \in BOOLEAN} \cup {[role |-> r] : r \in Roles}

RolesNext ==
    \/ WorkflowNext(MaxUserSheets, {None})
    \/ \E c \in UserIds, patch \in RolePatches : update_current_user(c, patch)
    \/ \E c \in UserIds, u \in UserIds, patch \in RolePatches :
          update_user(c, u, patch)
    \/ \E c \in UserIds, u \in UserIds : promote_user(c, u)
    \/ \E c \in UserIds, u \in UserIds : demote_user(c, u)
    \/ \E c \in UserIds, u \in UserIds, r \in Roles : change_user_role(c, u, r)

SpecRoles == RolesInit /\ [][RolesNext]_vars

(* SpecReview: the approval workflow with Google sign-in *)
ReviewInit == Init

ReviewNext ==
    \/ WorkflowNext(MaxUserSheets, ApproveNotes)
    \/ \E u \in UserIds, name \in GoogleNames : authenticate_with_google(u, name)

SpecReview == ReviewInit /\ [][ReviewNext]_vars

(* SpecMapping: create and submit with the supervisor-mapping handlers and *)
(* the patch of PUT /users/me that sets supervisor_id, for a staff user    *)
(* whose supervisor is the admin                                           *)
MappingInit ==
    InitWith((1 :> UserRow(1, "Alice Smith", "staff", FALSE, Some(3))) @@
             (3 :> SeedUsers[3]))

MappingIds == 1..nextId.mapping

OptUserIds == {None} \cup {Some(u) : u \in UserIds}

SupervisorPatches == {[supervisor_id |-> s] : s \in OptUserIds}

MappingNext ==
    \/ \E c \in UserIds, p \in Periods :
          Len(timesheets) < MaxUserSheets /\ create_timesheet(c, p)
    \/ \E c \in UserIds, t \in TimesheetIds : submit_timesheet(c, t)
    \/ \E c \in UserIds, patch \in SupervisorPatches :
          update_current_user(c, patch)
    \/ \E c \in UserIds, s \in UserIds, d \in UserIds :
          create_supervisor_mapping(c, s, d)
    \/ \E c \in UserIds, m \in MappingIds, s \in OptUserIds, d \in OptUserIds :
          update_supervisor_mapping(c, m, s, d)
    \/ \E c \in UserIds, m \in MappingIds : delete_supervisor_mapping(c, m)

SpecMapping == MappingInit /\ [][MappingNext]_vars

-----------------------------------------------------------------------------
(* Properties of the approval workflow *)

\* the request of this step names an existing timesheet
OnSheet(op) == resp'.op = op /\ resp'.id \in DOMAIN timesheets

\* the caller of this step is an active user of the timesheet's site
InSite(tid) ==
    /\ get_current_user(resp'.caller) = 200
    /\ get_site_from_user(resp'.caller) = timesheets[tid].site_id

\* C1: a submit succeeds only on a draft.  A submit request for a timesheet
\* that is pending, approved or rejected is rejected, with 400 when the
\* caller is the owner (the ownership check comes first and answers 403 to
\* anyone else), and leaves status, total_hours and the notifications as
\* they were.
C1_SubmitOnlyFromDraft ==
    [][(OnSheet("submit_timesheet") /\ timesheets[resp'.id].status # "draft")
         => /\ resp'.code # 200
            /\ (InSite(resp'.id) /\ resp'.caller = timesheets[resp'.id].user_id)
                  => resp'.code = 400
            /\ timesheets' = timesheets
            /\ notifications' = notifications]_vars

C1_Witness ==
    /\ resp.op = "submit_timesheet" /\ resp.code = 400
    /\ resp.id \in DOMAIN timesheets
    /\ timesheets[resp.id].status = "approved"
    /\ resp.caller = timesheets[resp.id].user_id

\* C2: an approve or a reject succeeds only on a pending timesheet.  For a
\* timesheet that is draft, approved or rejected the request is rejected,
\* with 400 when the caller passes the supervisor guard, and status,
\* reviewed_by, reviewed_by_name, review_notes and reviewed_at stay as they
\* were.
C2_ReviewOnlyFromPending ==
    [][\A op \in {"approve_timesheet", "reject_timesheet"} :
        (OnSheet(op) /\ timesheets[resp'.id].status # "pending")
         => /\ resp'.code # 200
            /\ (InSite(resp'.id) /\ users[resp'.caller].is_supervisor)
                  => resp'.code = 400
            /\ timesheets' = timesheets]_vars

C2_Witness ==
    /\ resp.op = "reject_timesheet" /\ resp.code = 400
    /\ resp.id \in DOMAIN timesheets
    /\ timesheets[resp.id].status = "approved"
    /\ IsSet(timesheets[resp.id].reviewed_by)

\* C4: a submit moves a timesheet to pending only when the caller is its
\* owner.  A submit by anyone else, a supervisor included, is rejected (403
\* for an active user of the timesheet's site) and changes nothing.
C4_SubmitOnlyByOwner ==
    [][(OnSheet("submit_timesheet")
          /\ resp'.caller # timesheets[resp'.id].user_id)
         => /\ resp'.code # 200
            /\ InSite(resp'.id) => resp'.code = 403
            /\ UNCHANGED db]_vars

C4_Witness ==
    /\ resp.op = "submit_timesheet" /\ resp.code = 403
    /\ resp.id \in DOMAIN timesheets
    /\ resp.caller # timesheets[resp.id].user_id
    /\ users[resp.caller].is_supervisor
    /\ timesheets[resp.id].status = "draft"

\* the transitions of the status field
StatusSteps ==
    {<<"draft", "pending">>, <<"pending", "approved">>, <<"pending", "rejected">>}

\* C3: status only moves along draft -> pending -> {approved, rejected}.
\* Over create, submit, approve, reject and every entry handler: a timesheet
\* is created in draft, no row is removed, in every step each timesheet keeps
\* its status or takes one of the three transitions, and so an approved or a
\* rejected timesheet keeps its status forever.
C3_StatusMonotonic ==
    /\ [](\A t \in DOMAIN timesheets : timesheets[t].status \in Statuses)
    /\ [][/\ Len(timesheets') >= Len(timesheets)
          /\ \A t \in DOMAIN timesheets' :
                IF t \in DOMAIN timesheets
                THEN \/ timesheets'[t].status = timesheets[t].status
                     \/ <<timesheets[t].status, timesheets'[t].status>> \in StatusSteps
                ELSE timesheets'[t].status = "draft"]_vars

\* an entry handler has succeeded on a timesheet that was rejected before
C3_Witness ==
    /\ resp.op \in {"create_timesheet_entry", "update_entry", "delete_entry"}
    /\ resp.code = 200
    /\ \E t \in DOMAIN timesheets :
          /\ timesheets[t].status = "rejected"
          /\ IsSet(timesheets[t].reviewed_by)

-----------------------------------------------------------------------------
(* Properties of total_hours and of the entry handlers *)

\* C6: right after a successful submit the stored total_hours is the sum of
\* the total_hours of the timesheet's entries, fractional hours included
\* (both sides in units of 1/Scale hour).
C6_SubmitTotalIsSum ==
    [][(resp'.op = "submit_timesheet" /\ resp'.code = 200)
         => /\ IsSet(timesheets'[resp'.id].total_hours)
            /\ Val(timesheets'[resp'.id].total_hours) * Scale
                 = SumHours({e \in entries' : e.submission_id = resp'.id})]_vars

\* C7: in every reachable state a timesheet whose total_hours is set has
\* total_hours equal to the sum of its current entries' total_hours.
C7_TotalAlwaysSum ==
    \A t \in DOMAIN timesheets :
       IsSet(timesheets[t].total_hours)
         => Val(timesheets[t].total_hours) * Scale = SumHours(EntriesOf(t))

\* the timesheets whose entries this step inserts, changes or deletes
TouchedSheets ==
    {e.submission_id : e \in (entries' \ entries) \cup (entries \ entries')}

\* C8: the entries of a timesheet change only by a request of its owner
\* while the timesheet is a draft.
C8_EntriesOnlyOwnerDraft ==
    [][\A t \in TouchedSheets :
          /\ t \in DOMAIN timesheets
          /\ resp'.caller = timesheets[t].user_id
          /\ timesheets[t].status = "draft"]_vars

-----------------------------------------------------------------------------
(* Properties of the reviewer and of the notifications *)

ReviewOps == {"approve_timesheet", "reject_timesheet"}

\* C5: every successful approve or reject is invoked by a user whose role is
\* supervisor or admin: an approve or reject by an active user whose role is
\* staff never succeeds and changes nothing, and on a pending timesheet of
\* the caller's site it is answered 403, whatever promote, demote,
\* change-role and user-update requests came before.
C5_ReviewOnlyBySupervisorRole ==
    [][resp'.op \in ReviewOps
         => /\ resp'.code = 200
                 => users[resp'.caller].role \in {"supervisor", "admin"}
            /\ (get_current_user(resp'.caller) = 200
                  /\ users[resp'.caller].role = "staff")
                 => /\ resp'.code # 200
                    /\ UNCHANGED db
                    /\ (/\ resp'.id \in DOMAIN timesheets
                        /\ InSite(resp'.id)
                        /\ timesheets[resp'.id].status = "pending")
                         => resp'.code = 403]_vars

\* the supervisors assigned to user u: the user its supervisor_id names, and
\* the supervisors of its rows in supervisor_direct_reports
AssignedSupervisors(u) ==
    (IF IsSet(users[u].supervisor_id)
        /\ CRUDUser_get(Val(users[u].supervisor_id)) # None
     THEN {Val(users[u].supervisor_id)} ELSE {})
    \cup {m.supervisor_id : m \in {x \in mappings : x.direct_report_id = u}}

ReviewRecorded(t) ==
    LET r == timesheets[t] IN
    /\ r.status \in {"approved", "rejected"}
         => /\ IsSet(r.reviewed_by)
            /\ IsSet(r.reviewed_by_name)
            /\ IsSet(r.reviewed_at)
            /\ \E n \in notifications :
                  n.user_id = r.user_id /\ n.related_entity_id = Some(t)
    /\ r.status \in {"draft", "pending"}
         => ~IsSet(r.reviewed_by) /\ ~IsSet(r.reviewed_at)

\* C10: an approved or rejected timesheet has reviewed_by, reviewed_by_name
\* and reviewed_at set and a notification for its owner; a draft or pending
\* one has reviewed_by and reviewed_at unset; and a successful approve or
\* reject records the caller as reviewed_by and the notes it was passed as
\* review_notes, and inserts the owner's notification.
C10_ReviewRecorded ==
    /\ [](\A t \in DOMAIN timesheets : ReviewRecorded(t))
    /\ [][(resp'.op \in ReviewOps /\ resp'.code = 200)
            => /\ timesheets'[resp'.id].reviewed_by = Some(resp'.caller)
               /\ timesheets'[resp'.id].review_notes \in
                     (IF resp'.op = "approve_timesheet"
                      THEN ApproveNotes ELSE RejectNotes)
               /\ \E n \in notifications' \ notifications :
                     n.user_id = timesheets[resp'.id].user_id]_vars

-----------------------------------------------------------------------------
(* Properties of the side effects *)

\* C11: a submit, approve or reject whose checks pass answers 200 and its
\* transition is persisted (pending with total_hours set; approved or
\* rejected with reviewed_by set), whether or not the notification insert
\* or the email fails.
C11_SideEffectFailureKeepsTransition ==
    [][/\ (resp'.op = "submit_timesheet"
             /\ submit_timesheet_check(resp'.caller, resp'.id) = 200)
          => /\ resp'.code = 200
             /\ timesheets'[resp'.id].status = "pending"
             /\ IsSet(timesheets'[resp'.id].total_hours)
       /\ (resp'.op \in ReviewOps /\ review_check(resp'.caller, resp'.id) = 200)
          => /\ resp'.code = 200
             /\ timesheets'[resp'.id].status =
                   (IF resp'.op = "approve_timesheet"
                    THEN "approved" ELSE "rejected")
             /\ timesheets'[resp'.id].reviewed_by = Some(resp'.caller)]_vars

\* a timesheet was submitted and approved, both answered 200, and neither
\* its supervisor's nor its owner's notification was written
C11_Witness ==
    /\ resp.op = "approve_timesheet" /\ resp.code = 200
    /\ timesheets[resp.id].status = "approved"
    /\ IsSet(timesheets[resp.id].total_hours)
    /\ ~\E n \in notifications : n.related_entity_id = Some(resp.id)

-----------------------------------------------------------------------------
(* Properties of feedback *)

\* C12: whatever responses were added, the responses that get_feedback and
\* get_feedback_responses return to a caller who is not a supervisor
\* contain no response whose is_internal is true.
C12_NoInternalForNonSupervisor ==
    (/\ resp.op \in {"get_feedback", "get_feedback_responses"}
     /\ resp.code = 200
     /\ ~users[resp.caller].is_supervisor)
      => \A r \in resp.body.responses : ~r.is_internal

\* the owner, not a supervisor, read a feedback item that has an internal
\* response and was returned the other response only
C12_Witness ==
    /\ resp.op = "get_feedback" /\ resp.code = 200
    /\ ~users[resp.caller].is_supervisor
    /\ resp.body.responses # {}
    /\ \E r \in feedback_responses : r.feedback_id = resp.id /\ r.is_internal

-----------------------------------------------------------------------------
(* Properties of projects *)

\* the request got past the role check and the lookup of its project
Answered(op) == resp'.op = op /\ "body" \in DOMAIN resp'

\* the projects of the caller's site that already have this name
NameUsedBy(c, name) == {p \in projects : p.site_id = users[c].site_id /\ p.name = name}

\* C13: no two projects of one site have the same name; a create or a
\* rename to a name already used in the caller's site is answered 400 and
\* changes nothing; a create with a name used only in another site succeeds.
C13_ProjectNameUniquePerSite ==
    /\ [](\A p, q \in projects :
              (p.site_id = q.site_id /\ p.name = q.name) => p = q)
    /\ [][/\ Answered("create_project")
             => IF NameUsedBy(resp'.caller, resp'.body) # {}
                THEN resp'.code = 400 /\ UNCHANGED db
                ELSE /\ resp'.code = 200
                     /\ \E p \in projects' \ projects :
                           /\ p.name = resp'.body
                           /\ p.site_id = users[resp'.caller].site_id
          /\ (/\ Answered("update_project")
              /\ "name" \in DOMAIN resp'.body
              /\ \E p \in NameUsedBy(resp'.caller, resp'.body.name) : p.id # resp'.id)
             => resp'.code = 400 /\ UNCHANGED db]_vars

\* the rows are those of before, except that the row old is now inactive
SoftDeleted(before, after, old) ==
    /\ old \in before
    /\ after = (before \ {old}) \cup {[old EXCEPT !.is_active = FALSE]}

Listings == {"read_projects", "read_my_projects", "read_project_members"}

-----------------------------------------------------------------------------
(* Properties of the timesheet table *)

\* C17: no user has two timesheet submissions for the same reporting
\* period (year and month).
C17_OneTimesheetPerPeriod ==
    \A i, j \in DOMAIN timesheets :
        (/\ timesheets[i].user_id = timesheets[j].user_id
         /\ timesheets[i].period = timesheets[j].period) => i = j

-----------------------------------------------------------------------------
(* Properties of the users table *)

\* C20: a user's role and is_supervisor flag change only in a request whose
\* caller has the admin role.
C20_OnlyAdminsChangeRoles ==
    [][(\E u \in DOMAIN users :
           \/ users'[u].role # users[u].role
           \/ users'[u].is_supervisor # users[u].is_supervisor)
        => /\ resp'.caller \in DOMAIN users
           /\ users[resp'.caller].role = "admin"]_vars


\* C14: a request whose token names no user row, or a user whose is_active
\* is false, is rejected (404, 400) and changes nothing; this holds for
\* every request made after the user was deactivated.
C14_UnknownOrInactiveRejected ==
    [][/\ resp'.caller \notin DOMAIN users
          => resp'.code = 404 /\ UNCHANGED db
       /\ (resp'.caller \in DOMAIN users /\ ~users[resp'.caller].is_active)
          => resp'.code = 400 /\ UNCHANGED db]_vars

\* a user created a timesheet, was deactivated, and the submit sent with
\* the same token was refused
C14_Witness ==
    /\ resp.op = "submit_timesheet" /\ resp.code = 400
    /\ resp.id \in DOMAIN timesheets
    /\ timesheets[resp.id].user_id = resp.caller
    /\ timesheets[resp.id].status = "draft"
    /\ ~users[resp.caller].is_active


MappingOps ==
    {"create_supervisor_mapping", "update_supervisor_mapping",
     "delete_supervisor_mapping"}

\* C15: after a supervisor-mapping request, users.supervisor_id and the
\* supervisor_direct_reports table agree: a user has a supervisor_id iff
\* some mapping row names the user as direct report, and then the row
\* (supervisor_id, user) exists.
C15_SupervisorIdAgreesWithMappings ==
    resp.op \in MappingOps =>
        \A u \in DOMAIN users :
            /\ IsSet(users[u].supervisor_id)
                 <=> (\E m \in mappings : m.direct_report_id = u)
            /\ IsSet(users[u].supervisor_id)
                 => \E m \in mappings :
                       /\ m.direct_report_id = u
                       /\ m.supervisor_id = Val(users[u].supervisor_id)

-----------------------------------------------------------------------------
(* Properties of update_feedback *)

ReviewFields == {"status", "priority", "assigned_to", "resolution_notes", "resolved_at"}

\* C19: update_feedback is a field-level patch: a field the request does
\* not supply keeps its value (resolved_at is stamped only by a supplied
\* status); for an owner who is not a supervisor the unsupplied ones of
\* title, description and rating stay, and status, priority, assigned_to,
\* resolution_notes and resolved_at stay whatever the request contains.
C19_UpdateFeedbackIsPatch ==
    [][(resp'.op = "update_feedback" /\ resp'.code = 200)
        => \E f \in feedback, g \in feedback' :
              /\ f.id = resp'.id /\ g.id = resp'.id
              /\ feedback' \ {g} = feedback \ {f}
              /\ \A k \in DOMAIN f \ DOMAIN resp'.body :
                    (k # "resolved_at" \/ "status" \notin DOMAIN resp'.body)
                       => g[k] = f[k]
              /\ ~users[resp'.caller].is_supervisor
                    => \A k \in ReviewFields : g[k] = f[k]]_vars

-----------------------------------------------------------------------------
(* Properties of sites *)

SiteOps == {"get_timesheet", "approve_timesheet", "reject_timesheet"}

\* the request of this step names a timesheet of another site than the
\* caller's
CrossSite ==
    /\ resp'.op \in SiteOps
    /\ resp'.id \in DOMAIN timesheets
    /\ get_current_user(resp'.caller) = 200
    /\ timesheets[resp'.id].site_id # users[resp'.caller].site_id

\* the answer to a request that names a timesheet id no row has
AnswerForMissing(op, c) ==
    IF op \in ReviewOps /\ ~users[c].is_supervisor THEN 403 ELSE 404

-----------------------------------------------------------------------------
(* Properties of roles and flags *)

UserOps ==
    {"update_current_user", "update_user", "promote_user", "demote_user",
     "change_user_role"}

\* C21: after a request that updates a user, every user's is_supervisor
\* flag is true iff the user's role is supervisor or admin.
C21_FlagMatchesRole ==
    resp.op \in UserOps =>
        \A u \in DOMAIN users :
            users[u].is_supervisor <=> users[u].role \in {"supervisor", "admin"}

-----------------------------------------------------------------------------
(* Properties of bulk entry creation *)

BulkOps == {"create_bulk_timesheet_entries", "upload_timesheet_csv"}

-----------------------------------------------------------------------------
(* Properties of feedback responses *)

\* C23: a response row is added only by add_feedback_response answered
\* 200, in the caller's name; an internal one only when the caller is a
\* supervisor at that time, and any one only when the caller is a supervisor
\* or the owner of the feedback item.
C23_InternalOnlyBySupervisor ==
    [][\A r \in feedback_responses' \ feedback_responses :
          /\ resp'.op = "add_feedback_response" /\ resp'.code = 200
          /\ r.user_id = resp'.caller /\ r.feedback_id = resp'.id
          /\ r.is_internal => users[resp'.caller].is_supervisor
          /\ \/ users[resp'.caller].is_supervisor
             \/ \E f \in feedback : f.id = r.feedback_id /\ f.user_id = resp'.caller]_vars

\* the owner, not a supervisor, was refused on the own feedback item, which
\* holds an internal response written by a supervisor
C23_Witness ==
    /\ resp.op = "add_feedback_response" /\ resp.code = 403
    /\ ~users[resp.caller].is_supervisor
    /\ \E f \in feedback : f.id = resp.id /\ f.user_id = resp.caller
    /\ \E r \in feedback_responses :
          r.feedback_id = resp.id /\ r.is_internal /\ users[r.user_id].is_supervisor

-----------------------------------------------------------------------------
(* Properties of project memberships *)

\* the membership rows the request of this step is about
Memberships == 
    {m \in project_members :
        /\ m.project_id = resp'.id /\ m.user_id = resp'.body.user_id
        /\ m.site_id = users[resp'.caller].site_id}

\* C24: at most one membership row exists per (site, project, user); adding
\* an active member is answered 400 and changes nothing; adding a user whose
\* membership is inactive sets is_active and the role on that row and inserts
\* none.
C24_OneMembershipPerUser ==
    /\ [](\A m, n \in project_members :
              (/\ m.site_id = n.site_id /\ m.project_id = n.project_id
               /\ m.user_id = n.user_id) => m = n)
    /\ [][(Answered("add_project_member") /\ Memberships # {})
            => \E m \in Memberships :
                  IF m.is_active
                  THEN resp'.code = 400 /\ UNCHANGED db
                  ELSE /\ resp'.code = 200
                       /\ project_members' =
                             (project_members \ {m}) \cup
                                {[m EXCEPT !.is_active = TRUE,
                                           !.role = resp'.body.role]}]_vars

\* a user was added with success although a later membership row already
\* existed: the user's removed membership was made active again, with the
\* role of the request, and there is still one row for the user
C24_Witness ==
    /\ resp.op = "add_project_member" /\ resp.code = 200
    /\ \E m, n \in project_members :
          /\ m.project_id = resp.id /\ m.user_id = resp.body.user_id
          /\ m.is_active /\ m.role = resp.body.role
          /\ n.id > m.id

-----------------------------------------------------------------------------
(* Properties of the team statistics *)

\* C25: overdue_count counts a timesheet only when more than 7 days have
\* passed since its submit transition: right after a successful submit the
\* timesheet is not among the overdue ones of any supervisor, however long
\* ago it was created.
C25_OverdueSinceSubmit ==
    [][(resp'.op = "submit_timesheet" /\ resp'.code = 200 /\ resp' # resp)
        => \A s \in DOMAIN users : resp'.id \notin overdue(s)']_vars

-----------------------------------------------------------------------------
(* Properties of the aggregations *)

RateOps == {"get_staff_dashboard_overview", "get_staff_performance_metrics",
            "get_staff_goals", "get_supervisor_team_overview",
            "get_staff_breakdown_analytics"}

\* the caller of the last request has no submitted (non-draft) timesheet
NoneSubmitted ==
    \A t \in DOMAIN timesheets :
        timesheets[t].user_id = resp.caller => timesheets[t].status = "draft"

\* every rate of the answer is 0 and no rate goal is completed or earned
ZeroRates ==
    CASE resp.op = "get_staff_dashboard_overview" -> resp.body.completion_rate = 0
      [] resp.op = "get_staff_performance_metrics" ->
            /\ resp.body.overall_approval_rate = 0
            /\ resp.body.overall_punctuality_rate = 0
            /\ ~resp.body.perfectionist /\ ~resp.body.punctual
      [] resp.op = "get_staff_goals" ->
            resp.body.current = 0 /\ resp.body.status # "completed"
      [] resp.op = "get_supervisor_team_overview" ->
            \A m \in resp.body.team_members : m.approval_rate = 0
      [] OTHER -> \A m \in resp.body : m.approval_rate = 0

\* C26: a request for an aggregation by a user who passes the guard and has
\* no submitted timesheet succeeds, with every rate 0 and no completed
\* status.
C26_NoSubmissionsGiveZeroRates ==
    (/\ resp.op \in RateOps
     /\ get_current_user(resp.caller) = 200
     /\ resp.op = "get_staff_breakdown_analytics" => get_current_supervisor(resp.caller) = 200
     /\ NoneSubmitted)
    => resp.code = 200 /\ ZeroRates

-----------------------------------------------------------------------------
(* Properties of concurrent requests *)

\* the notifications the owner of timesheet t got about its review
ReviewNotifications(t) ==
    {n \in notifications : /\ n.user_id = timesheets[t].user_id
                           /\ n.related_entity_id = Some(t)}

\* C27: of the review requests for one pending timesheet that are served
\* concurrently at most one succeeds: a review is answered 200 only while
\* the timesheet is still pending, and the owner never has more than one
\* review notification for a timesheet.
C27_OneReviewWins ==
    /\ [](\A t \in DOMAIN timesheets : Cardinality(ReviewNotifications(t)) <= 1)
    /\ [][(resp' # resp /\ resp'.op \in ReviewOps /\ resp'.code = 200)
            => timesheets[resp'.id].status = "pending"]_vars


\* the create_project requests whose second step is this step
Finishing(r) == r.op = "create_project" /\ inflight' = inflight \ {r}

\* C28: when create_project requests with the same name and site are served
\* concurrently, no two project rows share a site and a name, and a request
\* that reaches its insert when the name is already stored in its site ends
\* in an error and adds no row.
C28_ConcurrentCreateKeepsNameUnique ==
    /\ [](\A p, q \in projects : (p.site_id = q.site_id /\ p.name = q.name) => p = q)
    /\ [][\A r \in inflight :
            (Finishing(r) /\ get_by_name(r.name, get_site_from_user(r.caller)) # {})
            => resp'.code >= 400 /\ projects' = projects]_vars

\* a create_project that passed the name check has lost against a
\* concurrent one: it was answered 500 and the name is stored once
C28_Witness ==
    /\ resp.op = "create_project" /\ resp.code = 500
    /\ Cardinality(get_by_name(resp.body, get_site_from_user(resp.caller))) = 1

-----------------------------------------------------------------------------
(* Properties of the supervisor's lists *)

\* the pending submissions, in site_id, of the users mapped as direct
\* reports of s
PendingOfMapped(s, site_id) ==
    {t \in DOMAIN timesheets :
        /\ timesheets[t].status = "pending"
        /\ timesheets[t].site_id = site_id
        /\ \E m \in mappings : m.supervisor_id = s
                               /\ m.direct_report_id = timesheets[t].user_id}

\* C29: the pending-review list a supervisor is given holds exactly the
\* pending submissions, in the supervisor's site, of the users mapped as the
\* supervisor's direct reports, and equals the team list filtered by status
\* pending.
C29_PendingListIsPendingTeamList ==
    (resp.op = "get_pending_timesheets" /\ resp.code = 200)
    => /\ resp.body = PendingOfMapped(resp.caller, get_site_from_user(resp.caller))
       /\ resp.body = get_all_for_supervisor(resp.caller,
                          get_site_from_user(resp.caller), Some("pending"))

-----------------------------------------------------------------------------
(* Properties of the read state of notifications *)

ReadStateOps == {"mark_notification_as_read", "mark_all_notifications_as_read",
                 "delete_notification"}

\* this step answers a request for one of the given operations
Handles(ops) == resp' # resp /\ resp'.op \in ops

\* n is a notification of the caller of this step, in the caller's site
OfCaller(n) ==
    /\ get_current_user(resp'.caller) = 200
    /\ n.user_id = resp'.caller
    /\ n.site_id = get_site_from_user(resp'.caller)

\* the number of unread notifications of u in u's site
UnreadCount(rows, u) ==
    Cardinality({n \in rows : n.user_id = u /\ n.site_id = users[u].site_id
                              /\ ~n.is_read})

\* C30: the read state is owner-only, monotonic and idempotent.  is_read
\* holds iff read_at is set.  A mark-as-read, mark-all or delete leaves
\* every notification of another recipient or site as it was, and answers
\* 404 when the notification named is not the caller's.  No step takes
\* is_read back to false or changes the read_at of a read notification.
\* After mark-all the caller has no unread notification, the count reported
\* is the number there were, and every other user's count is unchanged.
C30_ReadStateOwnerOnlyMonotonic ==
    /\ [](\A n \in notifications : n.is_read <=> IsSet(n.read_at))
    /\ [][/\ Handles(ReadStateOps)
             => /\ \A n \in notifications : ~OfCaller(n) => n \in notifications'
                /\ \A n \in notifications :
                      (resp'.op # "mark_all_notifications_as_read"
                       /\ n.id = resp'.id /\ ~OfCaller(n)) => resp'.code = 404
          /\ \A n \in notifications : \A m \in notifications' :
                (n.id = m.id /\ n.is_read) => m = n
          /\ (Handles({"mark_all_notifications_as_read"}) /\ resp'.code = 200)
             => /\ UnreadCount(notifications', resp'.caller) = 0
                /\ resp'.body = UnreadCount(notifications, resp'.caller)
                /\ \A u \in DOMAIN users \ {resp'.caller} :
                      UnreadCount(notifications', u) = UnreadCount(notifications, u)
         ]_vars

\* a user asked to mark another user's unread notification as read, was
\* answered 404, and the notification is still there, unread
C30_Witness ==
    /\ resp.op = "mark_notification_as_read" /\ resp.code = 404
    /\ \E n \in notifications :
          n.id = resp.id /\ n.user_id # resp.caller /\ ~n.is_read
    /\ \E n \in notifications : n.is_read /\ n.read_at # Some(now)

=============================================================================
